---- MODULE Spec2Model ----
(***************************************************************************)
(* Model of the MCQ generator's validation / repair pipeline               *)
(* (src/core/validation.py), its schema (src/models.py) and the            *)
(* orchestrating request handler generate_mcq (src/api/routes.py).         *)
(*                                                                         *)
(* JSON values.  A Python dict is a TLA+ function whose DOMAIN is the set  *)
(* of keys that are present, so `"k" in d` is  "k" \in DOMAIN d.  Values   *)
(* that are not dicts carry one tag key: [list |-> <<..>>] is a list,      *)
(* [null |-> TRUE] is None, [str |-> s] a string, [num |-> n] a number and *)
(* [bool |-> b] a boolean.  Fields that always hold a string, a number or  *)
(* a boolean when present (question_text, question_id, is_correct, ...)    *)
(* hold the bare TLA+ value.  Sequence indices are 1-based here and        *)
(* 0-based in the source, so the source's  i + 1  is the TLA+ index.       *)
(***************************************************************************)
EXTENDS Integers, Sequences, FiniteSets, TLC

VARIABLES pc, request, validated_request, raw_result, mcq_data, repaired_again, response,
          events, llm_client, inflight, batch, llm_calls

vars == <<pc, request, validated_request, raw_result, mcq_data, repaired_again, response,
          events, llm_client, inflight, batch, llm_calls>>

----------------------------------------------------------------------------
(* Python dict / value helpers *)

EmptyDict == [k \in {} |-> TRUE]

Has(d, k) == k \in DOMAIN d

Get(d, k, default) == IF k \in DOMAIN d THEN d[k] ELSE default

Put(d, k, v) == [j \in (DOMAIN d) \cup {k} |-> IF j = k THEN v ELSE d[j]]

\* d.setdefault(k, v), and the `if k not in d: d[k] = v` idiom
SetDefault(d, k, v) == IF Has(d, k) THEN d ELSE Put(d, k, v)

\* A variant in which the keys already in d keep their values
UpdateMutantKeepExisting(d, e) ==
    [j \in (DOMAIN d) \cup (DOMAIN e) |-> IF j \in DOMAIN d THEN d[j] ELSE e[j]]

\* d.update(e)
Update(d, e) == [j \in (DOMAIN d) \cup (DOMAIN e) |-> IF j \in DOMAIN e THEN e[j] ELSE d[j]]

Restrict(d, keys) == [j \in (DOMAIN d) \cap keys |-> d[j]]

TagKeys == {"list", "null", "str", "num", "bool", "text"}

List(s) == [list |-> s]

Null == [null |-> TRUE]

Str(s) == [str |-> s]

Num(n) == [num |-> n]

Bool(b) == [bool |-> b]

\* A str whose characters matter: s is the sequence of its characters
Text(s) == [text |-> s]

IsText(v) == "text" \in DOMAIN v

IsList(v) == "list" \in DOMAIN v

IsNull(v) == "null" \in DOMAIN v

IsMapping(v) == (DOMAIN v) \cap TagKeys = {}

\* Python truthiness: bool(v)
Truthy(v) ==
    IF IsList(v) THEN Len(v.list) > 0
    ELSE IF IsNull(v) THEN FALSE
    ELSE IF "str" \in DOMAIN v THEN v.str # ""
    ELSE IF "num" \in DOMAIN v THEN v.num # 0
    ELSE IF "bool" \in DOMAIN v THEN v.bool
    ELSE DOMAIN v # {}

\* len(v) is defined for lists, strings and dicts; None, numbers and booleans
\* raise TypeError.
HasLen(v) == IsList(v) \/ "str" \in DOMAIN v \/ IsMapping(v)

\* len(v) where the pipeline takes it: of a list, or of a falsy string or
\* dict left in place by a skipped repair step (length 0).
PyLen(v) == IF IsList(v) THEN Len(v.list) ELSE 0

\* Results of operations that may raise.
Ok(v) == [ok |-> TRUE, val |-> v]

Raise(e) == [ok |-> FALSE, err |-> e]

\* The value of  d.get(k)  when the key is absent, for string-valued keys.
PyNone == "<None>"

\* datetime.now().isoformat()
Now == "<now>"

----------------------------------------------------------------------------
(* Option repair: _validate_question_options *)

NumOptions == 4

\* f"Option {n}" for the positions a placeholder can take
PlaceholderText(n) ==
    CASE n = 1 -> "Option 1"
      [] n = 2 -> "Option 2"
      [] n = 3 -> "Option 3"
      [] n = 4 -> "Option 4"

RECURSIVE PadOptions(_)
PadOptions(options) ==
    IF Len(options) < NumOptions
    THEN PadOptions(Append(options,
            [option |-> PlaceholderText(Len(options) + 1), is_correct |-> FALSE]))
    ELSE options

\* A variant that pads but never truncates
PadOrTruncateMutantNoTruncate(options) ==
    IF Len(options) < NumOptions THEN PadOptions(options) ELSE options

\* lines 149-156: pad with placeholders up to 4, or keep the first 4
PadOrTruncate(options) ==
    IF Len(options) < NumOptions THEN PadOptions(options)
    ELSE IF Len(options) > NumOptions THEN SubSeq(options, 1, NumOptions)
    ELSE options

\* opt.get("is_correct", False)
IsCorrect(opt) == Get(opt, "is_correct", FALSE)

\* line 159: correct_options = [opt for opt in options if opt.get("is_correct", False)]
CorrectOptions(options) == SelectSeq(options, IsCorrect)

\* lines 174-177: the first index whose option text equals the text of some
\* originally-correct option
FirstCorrectIndex(options, correct_options) ==
    CHOOSE i \in 1..Len(options) :
        /\ \E c \in 1..Len(correct_options) :
              Get(correct_options[c], "option", PyNone) = Get(options[i], "option", PyNone)
        /\ \A j \in 1..(i - 1) :
              ~ \E c \in 1..Len(correct_options) :
                    Get(correct_options[c], "option", PyNone) = Get(options[j], "option", PyNone)

\* A variant that handles only the case of no correct option
FixCorrectMutantZeroOnly(options) ==
    IF Len(CorrectOptions(options)) = 0
    THEN [options EXCEPT ![1] = Put(options[1], "is_correct", TRUE)]
    ELSE options

\* A variant that handles only the case of several correct options
FixCorrectMutantManyOnly(options) ==
    LET correct_options == CorrectOptions(options)
        reset == [i \in 1..Len(options) |-> Put(options[i], "is_correct", FALSE)]
    IN  IF Len(correct_options) > 1
        THEN LET first_correct_index == FirstCorrectIndex(options, correct_options)
             IN  [reset EXCEPT ![first_correct_index] =
                                   Put(reset[first_correct_index], "is_correct", TRUE)]
        ELSE options

\* lines 158-180: enforce exactly one correct option
FixCorrect(options) ==
    LET correct_options == CorrectOptions(options)
        reset == [i \in 1..Len(options) |-> Put(options[i], "is_correct", FALSE)]
    IN  IF Len(correct_options) # 1
        THEN IF Len(correct_options) = 0
             THEN [reset EXCEPT ![1] = Put(reset[1], "is_correct", TRUE)]
             ELSE LET first_correct_index == FirstCorrectIndex(options, correct_options)
                  IN  [reset EXCEPT ![first_correct_index] =
                                        Put(reset[first_correct_index], "is_correct", TRUE)]
        ELSE options

\* options: a JSON value.  A non-list raises MCQValidationError (line 147); a
\* list element that is not a dict has no .get and raises AttributeError
\* (line 159).
CheckedFixCorrect(padded) ==
    IF \E i \in 1..Len(padded) : ~IsMapping(padded[i])
    THEN Raise("AttributeError")
    ELSE Ok(FixCorrect(padded))

_validate_question_options(options) ==
    IF ~IsList(options)
    THEN Raise("'options' must be an array")
    ELSE CheckedFixCorrect(PadOrTruncate(options.list))

----------------------------------------------------------------------------
(* Question repair: _validate_questions *)

QuestionRequiredFields == {"question_text", "explanation", "options", "difficulty"}

\* lines 121-131, given the result of _validate_question_options
WithValidatedOptions(question, options) ==
    IF ~options.ok
    THEN options
    ELSE Ok(SetDefault(Put(question, "options", List(options.val)), "topic_area", "General"))

\* A variant whose required fields leave out "explanation"
CheckRequiredFieldsMutantExplanationOptional(question) ==
    IF \E f \in {"question_text", "options", "difficulty"} : ~Has(question, f)
    THEN Raise("missing field")
    ELSE WithValidatedOptions(question, _validate_question_options(question["options"]))

\* lines 113-125
CheckRequiredFields(question) ==
    IF \E f \in QuestionRequiredFields : ~Has(question, f)
    THEN Raise("missing field")
    ELSE WithValidatedOptions(question, _validate_question_options(question["options"]))

\* The body of the loop (lines 108-131) for the question at 1-based index i:
\* Ok(question) when it is appended, Raise(..) when the except clause skips
\* it.  An element that is not a dict raises TypeError at line 111.
ValidateQuestion(question, i) ==
    IF ~IsMapping(question)
    THEN Raise("TypeError")
    ELSE CheckRequiredFields(SetDefault(question, "question_id", i))

\* A variant that numbers a question by its place among the questions kept
RECURSIVE ValidateQuestionsLoopMutantSurvivorIndex(_, _, _)
ValidateQuestionsLoopMutantSurvivorIndex(questions, i, validated_questions) ==
    IF i > Len(questions)
    THEN validated_questions
    ELSE LET r == ValidateQuestion(questions[i], Len(validated_questions) + 1)
         IN  ValidateQuestionsLoopMutantSurvivorIndex(questions, i + 1,
                IF r.ok THEN Append(validated_questions, r.val) ELSE validated_questions)

RECURSIVE ValidateQuestionsLoop(_, _, _)
ValidateQuestionsLoop(questions, i, validated_questions) ==
    IF i > Len(questions)
    THEN validated_questions
    ELSE LET r == ValidateQuestion(questions[i], i)
         IN  ValidateQuestionsLoop(questions, i + 1,
                IF r.ok THEN Append(validated_questions, r.val) ELSE validated_questions)

\* A variant without the check of lines 138-139
_validate_questionsMutantAllowEmpty(questions) ==
    Ok(ValidateQuestionsLoop(questions, 1, <<>>))

\* questions: a sequence (the caller has checked it is a list)
_validate_questions(questions) ==
    LET validated_questions == ValidateQuestionsLoop(questions, 1, <<>>)
    IN  IF Len(validated_questions) = 0
        THEN Raise("No valid questions found")
        ELSE Ok(validated_questions)

----------------------------------------------------------------------------
(* Roadmap repair: _validate_roadmap *)

\* The body of the loop (lines 191-209) for the step at 1-based index i.  The
\* `continue` of line 201 continues the loop over the field names, so a
\* missing or empty field only logs a warning.
\* lines 203-207
EnsurePrerequisites(step) ==
    IF ~Has(step, "prerequisites") THEN Put(step, "prerequisites", List(<<>>))
    ELSE IF ~IsList(step["prerequisites"]) THEN Put(step, "prerequisites", List(<<>>))
    ELSE step

\* A variant in which a missing or empty title, description or
\* estimated_duration skips the step
ValidateRoadmapStepMutantSkipIncomplete(step, i) ==
    IF ~IsMapping(step)
    THEN Raise("TypeError")
    ELSE IF \E f \in {"title", "description", "estimated_duration"} :
                ~Has(step, f) \/ step[f] = ""
    THEN Raise("missing or empty field")
    ELSE Ok(EnsurePrerequisites(SetDefault(step, "step_number", i)))

ValidateRoadmapStep(step, i) ==
    IF ~IsMapping(step)
    THEN Raise("TypeError")
    ELSE Ok(EnsurePrerequisites(SetDefault(step, "step_number", i)))

RECURSIVE ValidateRoadmapLoop(_, _, _)
ValidateRoadmapLoop(roadmap, i, validated_roadmap) ==
    IF i > Len(roadmap)
    THEN validated_roadmap
    ELSE LET r == ValidateRoadmapStep(roadmap[i], i)
         IN  ValidateRoadmapLoop(roadmap, i + 1,
                IF r.ok THEN Append(validated_roadmap, r.val) ELSE validated_roadmap)

\* roadmap: a JSON value; the result is a sequence
_validate_roadmap(roadmap) ==
    IF ~IsList(roadmap) THEN <<>>
    ELSE ValidateRoadmapLoop(roadmap.list, 1, <<>>)

----------------------------------------------------------------------------
(* Reference-video repair: _validate_reference_videos *)

\* URLs are sequences of characters, so that str.startswith is computed.
HttpPrefix == <<"h", "t", "t", "p", ":", "/", "/">>

HttpsPrefix == <<"h", "t", "t", "p", "s", ":", "/", "/">>

StartsWith(s, prefix) ==
    Len(s) >= Len(prefix) /\ SubSeq(s, 1, Len(prefix)) = prefix

\* url.startswith(("http://", "https://"))
HasAcceptedScheme(url) == StartsWith(url, HttpPrefix) \/ StartsWith(url, HttpsPrefix)

\* A variant that appends the entry without the defaults of lines 239-245
ValidateVideoMutantNoDefaults(video) ==
    IF ~IsMapping(video)
    THEN Raise("TypeError")
    ELSE IF ~Has(video, "url")
    THEN Raise("KeyError")
    ELSE IF ~HasAcceptedScheme(video["url"])
    THEN Raise("invalid URL format")
    ELSE Ok(video)

\* The body of the loop (lines 226-247).  The `continue` of line 232 continues
\* the loop over the field names, so lines 229-232 only log; video["url"] of
\* line 235 raises KeyError when the key is absent (TypeError when the entry
\* is not a dict), which the except clause turns into skipping the entry.
ValidateVideo(video) ==
    IF ~IsMapping(video)
    THEN Raise("TypeError")
    ELSE IF ~Has(video, "url")
    THEN Raise("KeyError")
    ELSE IF ~HasAcceptedScheme(video["url"])
    THEN Raise("invalid URL format")
    ELSE Ok(SetDefault(SetDefault(video, "duration", "Unknown"),
                       "description", "Educational video content"))

RECURSIVE ValidateVideosLoop(_, _, _)
ValidateVideosLoop(videos, i, validated_videos) ==
    IF i > Len(videos)
    THEN validated_videos
    ELSE LET r == ValidateVideo(videos[i])
         IN  ValidateVideosLoop(videos, i + 1,
                IF r.ok THEN Append(validated_videos, r.val) ELSE validated_videos)

\* videos: a JSON value; the result is a sequence
_validate_reference_videos(videos) ==
    IF ~IsList(videos) THEN <<>>
    ELSE ValidateVideosLoop(videos.list, 1, <<>>)

----------------------------------------------------------------------------
(* Metadata: _generate_metadata *)

\* lines 261-264: count per difficulty value, in question order
RECURSIVE DifficultyDist(_, _, _)
DifficultyDist(questions, i, difficulty_dist) ==
    IF i > Len(questions)
    THEN difficulty_dist
    ELSE LET difficulty == Get(questions[i], "difficulty", "unknown")
         IN  DifficultyDist(questions, i + 1,
                Put(difficulty_dist, difficulty, Get(difficulty_dist, difficulty, 0) + 1))

\* A variant whose difficulty count starts at the second question
ComputedMetadataMutantSkipFirst(data) ==
    [ total_questions |-> Len(data["questions"].list),
      difficulty_distribution |-> DifficultyDist(data["questions"].list, 2, EmptyDict),
      has_roadmap |-> Truthy(Get(data, "roadmap", Null)),
      has_reference_videos |-> Truthy(Get(data, "reference_videos", Null)),
      roadmap_steps |-> PyLen(Get(data, "roadmap", List(<<>>))),
      reference_video_count |-> PyLen(Get(data, "reference_videos", List(<<>>))),
      validation_timestamp |-> Now ]

\* lines 266-274
ComputedMetadata(data) ==
    [ total_questions |-> Len(data["questions"].list),
      difficulty_distribution |-> DifficultyDist(data["questions"].list, 1, EmptyDict),
      has_roadmap |-> Truthy(Get(data, "roadmap", Null)),
      has_reference_videos |-> Truthy(Get(data, "reference_videos", Null)),
      roadmap_steps |-> PyLen(Get(data, "roadmap", List(<<>>))),
      reference_video_count |-> PyLen(Get(data, "reference_videos", List(<<>>))),
      validation_timestamp |-> Now ]

\* data (mcq_data in the source): the dict after question / roadmap / video repair.  len() of a
\* roadmap or reference_videos value that is None, a number or a boolean raises
\* TypeError (lines 271-272); dict.update(None) raises TypeError (line 278).
_generate_metadata(data) ==
    IF \/ ~HasLen(Get(data, "roadmap", List(<<>>)))
       \/ ~HasLen(Get(data, "reference_videos", List(<<>>)))
    THEN Raise("TypeError: object has no len()")
    ELSE IF ~IsMapping(Get(data, "metadata", EmptyDict))
    THEN Raise("TypeError: object is not iterable")
    ELSE Ok(Update(ComputedMetadata(data), Get(data, "metadata", EmptyDict)))

----------------------------------------------------------------------------
(* The schema: src/models.py (Pydantic) *)

\* len(s) of the string literals the model uses
StrLen(s) ==
    CASE s = "" -> 0
      [] s \in {"A", "B", "C", "D", "E", "T", "V"} -> 1
      [] s = "Q?" -> 2
      [] s \in {"What is X?", "Because Y."} -> 10
      [] s \in {"Option 1", "Option 2", "Option 3", "Option 4"} -> 8
      [] s = "Educational video content" -> 25

MinQuestionTextLen == 10

MaxQuestionTextLen == 1000

MinExplanationLen == 10

MaxExplanationLen == 2000

MaxOptionLen == 500

MaxTitleLen == 200

MaxStepDescriptionLen == 1000

MaxVideoDescriptionLen == 500

DifficultyLevel == {"basic", "intermediate", "advanced", "mixed"}

\* MCQOption
ValidMCQOption(o) ==
    /\ IsMapping(o)
    /\ Has(o, "option") /\ StrLen(o["option"]) \in 1..MaxOptionLen
    /\ Has(o, "is_correct")

\* MCQQuestion, with its validator validate_options
ValidMCQQuestion(q) ==
    /\ IsMapping(q)
    /\ Has(q, "question_id") /\ q["question_id"] >= 1
    /\ Has(q, "question_text")
    /\ StrLen(q["question_text"]) \in MinQuestionTextLen..MaxQuestionTextLen
    /\ Has(q, "explanation")
    /\ StrLen(q["explanation"]) \in MinExplanationLen..MaxExplanationLen
    /\ Has(q, "options") /\ IsList(q["options"])
    /\ Len(q["options"].list) = NumOptions
    /\ \A i \in 1..Len(q["options"].list) : ValidMCQOption(q["options"].list[i])
    /\ Len(CorrectOptions(q["options"].list)) = 1
    /\ Has(q, "difficulty") /\ q["difficulty"] \in DifficultyLevel

\* RoadmapStep
ValidRoadmapStep(s) ==
    /\ IsMapping(s)
    /\ Has(s, "step_number") /\ s["step_number"] >= 1
    /\ Has(s, "title") /\ StrLen(s["title"]) \in 1..MaxTitleLen
    /\ Has(s, "description") /\ StrLen(s["description"]) \in 1..MaxStepDescriptionLen
    /\ Has(s, "estimated_duration")
    /\ Has(s, "prerequisites") => IsList(s["prerequisites"])

\* ReferenceVideo, with its validator validate_url
ValidReferenceVideo(v) ==
    /\ IsMapping(v)
    /\ Has(v, "title") /\ StrLen(v["title"]) \in 1..MaxTitleLen
    /\ Has(v, "url") /\ HasAcceptedScheme(v["url"])
    /\ Has(v, "difficulty_level") /\ v["difficulty_level"] \in DifficultyLevel
    /\ Has(v, "description") => StrLen(v["description"]) <= MaxVideoDescriptionLen

\* Optional[List[RoadmapStep]]: absent, None, or a list of valid steps
ValidRoadmap(data) ==
    \/ ~Has(data, "roadmap")
    \/ IsNull(data["roadmap"])
    \/ /\ IsList(data["roadmap"])
       /\ \A i \in 1..Len(data["roadmap"].list) : ValidRoadmapStep(data["roadmap"].list[i])

\* Optional[List[ReferenceVideo]]: absent, None, or a list of valid videos
ValidReferenceVideos(data) ==
    \/ ~Has(data, "reference_videos")
    \/ IsNull(data["reference_videos"])
    \/ /\ IsList(data["reference_videos"])
       /\ \A i \in 1..Len(data["reference_videos"].list) :
              ValidReferenceVideo(data["reference_videos"].list[i])

\* MCQResponse(**data) raises no ValidationError
ValidMCQResponse(data) ==
    /\ Has(data, "username") /\ Has(data, "topic") /\ Has(data, "timestamp")
    /\ Has(data, "questions") /\ IsList(data["questions"])
    /\ \A i \in 1..Len(data["questions"].list) : ValidMCQQuestion(data["questions"].list[i])
    /\ ValidRoadmap(data)
    /\ ValidReferenceVideos(data)
    /\ Has(data, "metadata") => IsMapping(data["metadata"])

MCQOptionDict(o) == [option |-> o["option"], is_correct |-> o["is_correct"]]

MCQQuestionDict(q) ==
    [ question_id |-> q["question_id"],
      question_text |-> q["question_text"],
      explanation |-> q["explanation"],
      options |-> List([i \in 1..Len(q["options"].list) |-> MCQOptionDict(q["options"].list[i])]),
      difficulty |-> q["difficulty"],
      topic_area |-> Get(q, "topic_area", PyNone) ]

RoadmapStepDict(s) ==
    [ step_number |-> s["step_number"],
      title |-> s["title"],
      description |-> s["description"],
      estimated_duration |-> s["estimated_duration"],
      prerequisites |-> Get(s, "prerequisites", List(<<>>)) ]

ReferenceVideoDict(v) ==
    [ title |-> v["title"],
      url |-> v["url"],
      duration |-> Get(v, "duration", PyNone),
      difficulty_level |-> v["difficulty_level"],
      description |-> Get(v, "description", PyNone) ]

RoadmapDict(data) ==
    IF Has(data, "roadmap") /\ IsList(data["roadmap"])
    THEN List([i \in 1..Len(data["roadmap"].list) |-> RoadmapStepDict(data["roadmap"].list[i])])
    ELSE Null

ReferenceVideosDict(data) ==
    IF Has(data, "reference_videos") /\ IsList(data["reference_videos"])
    THEN List([i \in 1..Len(data["reference_videos"].list) |->
                  ReferenceVideoDict(data["reference_videos"].list[i])])
    ELSE Null

\* MCQResponse(**data).dict(): every field of the schema is a key of the
\* result, an Optional field that was absent being None.
MCQResponseDict(data) ==
    [ username |-> data["username"],
      topic |-> data["topic"],
      timestamp |-> data["timestamp"],
      questions |-> List([i \in 1..Len(data["questions"].list) |->
                            MCQQuestionDict(data["questions"].list[i])]),
      roadmap |-> RoadmapDict(data),
      reference_videos |-> ReferenceVideosDict(data),
      metadata |-> Get(data, "metadata", EmptyDict) ]

----------------------------------------------------------------------------
(* Repair: validate_mcq_json *)

\* Payload values used in JSON documents and as inputs
GoodOptions ==
    << [option |-> "A", is_correct |-> TRUE], [option |-> "B", is_correct |-> FALSE],
       [option |-> "C", is_correct |-> FALSE], [option |-> "D", is_correct |-> FALSE] >>

ShortQuestion(options) ==
    [question_text |-> "Q?", explanation |-> "E", options |-> options, difficulty |-> "basic"]

FullQuestion ==
    [ question_id |-> 7, question_text |-> "What is X?", explanation |-> "Because Y.",
      options |-> List(GoodOptions), difficulty |-> "basic", topic_area |-> "T" ]

PlainQuestion(difficulty) ==
    [ question_text |-> "What is X?", explanation |-> "Because Y.",
      options |-> List(GoodOptions), difficulty |-> difficulty ]

TwoQuestions == List(<<FullQuestion, PlainQuestion("advanced")>>)

BasePayload(questions) == [username |-> "u", topic |-> "t", questions |-> questions]

\* A text is a sequence of characters in which a whole JSON document is
\* one element: JsonValue gives the value json.loads returns for it.  "{oops"
\* stands for text that is not JSON.
JsonDocuments == {"{two}", "{short}", "{nokeys}", "[]"}

JsonValue(document) ==
    CASE document = "{two}" -> BasePayload(TwoQuestions)
      [] document = "{short}" -> BasePayload(List(<<PlainQuestion("weird"), ShortQuestion(Null)>>))
      [] document = "{nokeys}" -> EmptyDict
      [] document = "[]" -> List(<<>>)

Whitespace == {" ", "\n"}

\* The backquote character (written by name)
Backquote == "backquote"

\* three backquotes followed by json
OpeningFence == <<Backquote, Backquote, Backquote, "j", "s", "o", "n">>

\* three backquotes
ClosingFence == <<Backquote, Backquote, Backquote>>

EndsWith(s, suffix) ==
    Len(s) >= Len(suffix) /\ SubSeq(s, Len(s) - Len(suffix) + 1, Len(s)) = suffix

RECURSIVE LStrip(_)
LStrip(s) ==
    IF s # <<>> /\ Head(s) \in Whitespace THEN LStrip(Tail(s)) ELSE s

RECURSIVE RStrip(_)
RStrip(s) ==
    IF s # <<>> /\ s[Len(s)] \in Whitespace THEN RStrip(SubSeq(s, 1, Len(s) - 1)) ELSE s

\* s.strip()
Strip(s) == RStrip(LStrip(s))

\* lines 75-76
StripOpeningFence(s) ==
    IF StartsWith(s, OpeningFence) THEN SubSeq(s, Len(OpeningFence) + 1, Len(s)) ELSE s

\* A variant that leaves a closing fence in place
StripClosingFenceMutantKeep(s) == s

\* lines 77-78
StripClosingFence(s) ==
    IF EndsWith(s, ClosingFence) THEN SubSeq(s, 1, Len(s) - Len(ClosingFence)) ELSE s

\* json.loads: the value of a text that is one JSON document, JSONDecodeError
\* (re-raised at lines 60-62 as "Invalid JSON format") otherwise
JsonLoads(s) ==
    IF Len(s) = 1 /\ s[1] \in JsonDocuments
    THEN Ok(JsonValue(s[1]))
    ELSE Raise("Invalid JSON format")

\* A dict is returned as it is, a str is unfenced and parsed; a value that is
\* neither raises MCQValidationError (line 81).
_parse_json_input(mcq_json_str) ==
    IF IsMapping(mcq_json_str) THEN Ok(mcq_json_str)
    ELSE IF IsText(mcq_json_str)
    THEN JsonLoads(Strip(StripClosingFence(StripOpeningFence(Strip(mcq_json_str.text)))))
    ELSE Raise("Invalid input type")

\* A variant that stamps the current time whether or not a timestamp is there
_validate_basic_structureMutantAlwaysStamp(data) ==
    IF ~Has(data, "username") THEN Raise("Missing required field: username")
    ELSE IF ~Has(data, "topic") THEN Raise("Missing required field: topic")
    ELSE IF ~Has(data, "questions") THEN Raise("Missing required field: questions")
    ELSE IF ~IsList(data["questions"]) THEN Raise("'questions' must be an array")
    ELSE Ok(Put(data, "timestamp", Now))

\* The fields are checked in the order username, topic, timestamp, questions;
\* a missing timestamp is filled in.
_validate_basic_structure(data) ==
    IF ~Has(data, "username") THEN Raise("Missing required field: username")
    ELSE IF ~Has(data, "topic") THEN Raise("Missing required field: topic")
    ELSE IF ~Has(data, "questions") THEN Raise("Missing required field: questions")
    ELSE IF ~IsList(data["questions"]) THEN Raise("'questions' must be an array")
    ELSE Ok(SetDefault(data, "timestamp", Now))

\* lines 39-41
RepairRoadmap(data) ==
    IF Truthy(Get(data, "roadmap", Null))
    THEN Put(data, "roadmap", List(_validate_roadmap(data["roadmap"])))
    ELSE data

\* lines 43-45
RepairReferenceVideos(data) ==
    IF Truthy(Get(data, "reference_videos", Null))
    THEN Put(data, "reference_videos", List(_validate_reference_videos(data["reference_videos"])))
    ELSE data

\* lines 50-58: the Pydantic result when the schema accepts the data, the
\* manually repaired data otherwise
FinalValidation(data) ==
    IF ValidMCQResponse(data) THEN MCQResponseDict(data) ELSE data

\* lines 47-58, given the result of _generate_metadata
WithMetadata(data, metadata) ==
    IF ~metadata.ok THEN metadata
    ELSE Ok(FinalValidation(Put(data, "metadata", metadata.val)))

\* lines 47-58
AddMetadata(data) == WithMetadata(data, _generate_metadata(data))

\* lines 37-58, given the result of _validate_questions
WithQuestions(data, questions) ==
    IF ~questions.ok THEN questions
    ELSE AddMetadata(RepairReferenceVideos(RepairRoadmap(
            Put(data, "questions", List(questions.val)))))

\* lines 36-58, given the result of _validate_basic_structure
AfterBasicStructure(basic) ==
    IF ~basic.ok THEN basic
    ELSE WithQuestions(basic.val, _validate_questions(basic.val["questions"].list))

\* lines 33-58, given the result of _parse_json_input
AfterParse(parsed) ==
    IF ~parsed.ok THEN parsed
    ELSE AfterBasicStructure(_validate_basic_structure(parsed.val))

\* Ok(dict) when a dict is returned, Raise(..) when MCQValidationError is
\* raised (every exception inside is re-raised as MCQValidationError, lines
\* 60-65).
validate_mcq_json(mcq_json_str) == AfterParse(_parse_json_input(mcq_json_str))

----------------------------------------------------------------------------
(* Inputs *)

MaxOptions == 5

MaxQuestions == 2

MaxItems == 2

SeqsUpTo(S, n) == UNION {[1..m -> S] : m \in 0..n}

Url(scheme) ==
    CASE scheme = "https" -> HttpsPrefix \o <<"x">>
      [] scheme = "http" -> HttpPrefix \o <<"y">>
      [] scheme = "ftp" -> <<"f", "t", "p", ":", "/", "/", "x">>
      [] scheme = "" -> <<>>

None == [none |-> TRUE]

\* Raw options: dicts with a text and a boolean flag, one without the flag,
\* and an entry that is a string instead of a dict.
OptionVals ==
    { [option |-> "A", is_correct |-> TRUE], [option |-> "A", is_correct |-> FALSE],
      [option |-> "B", is_correct |-> TRUE], [option |-> "B", is_correct |-> FALSE],
      [option |-> "A"], Str("A") }

QuestionVals ==
    { FullQuestion,
      PlainQuestion("advanced"),
      PlainQuestion("weird"),
      Put(PlainQuestion("intermediate"), "question_id", 2),
      ShortQuestion(List(<< [option |-> "A", is_correct |-> TRUE],
                            [option |-> "B", is_correct |-> TRUE] >>)),
      ShortQuestion(List(GoodOptions \o << [option |-> "E", is_correct |-> TRUE] >>)),
      ShortQuestion(Null),
      ShortQuestion(Str("A")),
      ShortQuestion(List(<< Str("A"), [option |-> "B", is_correct |-> TRUE] >>)),
      Str("Q?") }
    \cup { Restrict(FullQuestion, (DOMAIN FullQuestion) \ {f}) : f \in QuestionRequiredFields }

StepVals ==
    { [ step_number |-> 3, title |-> "T", description |-> "D", estimated_duration |-> "1h",
        prerequisites |-> List(<<"p">>) ],
      [ description |-> "D", estimated_duration |-> "1h" ],
      [ title |-> "", description |-> "D", estimated_duration |-> "1h",
        prerequisites |-> Str("p") ],
      Str("T") }

RoadmapVals ==
    { Null, Num(0), Bool(FALSE), Str(""), Str("T") }
    \cup { List(steps) : steps \in SeqsUpTo(StepVals, MaxItems) }

FullVideo(scheme) ==
    [ title |-> "V", url |-> Url(scheme), duration |-> "5:00", difficulty_level |-> "basic",
      description |-> "D" ]

VideoVals ==
    { FullVideo("https"),
      Restrict(FullVideo("http"), {"title", "url", "difficulty_level"}),
      FullVideo("ftp"),
      FullVideo(""),
      Restrict(FullVideo("https"), {"url", "duration", "difficulty_level", "description"}),
      Restrict(FullVideo("http"), {"title", "url", "duration", "description"}),
      Restrict(FullVideo("https"), {"title", "duration", "difficulty_level", "description"}),
      [ title |-> "", url |-> Url("https"), difficulty_level |-> "basic" ],
      Str("V") }

ReferenceVideosVals ==
    { Null, Num(0), Str(""), Str("<<SEARCH_VIDEOS>>") }
    \cup { List(videos) : videos \in SeqsUpTo(VideoVals, MaxItems) }

\* The metadata object of the prompt's JSON structure (chain.py lines 196-200),
\* other dicts, and None.
MetadataVals ==
    { Null,
      [ generation_time_seconds |-> 0, difficulty_distribution |-> EmptyDict,
        total_questions |-> 20 ],
      [ has_roadmap |-> TRUE, roadmap_steps |-> 8, model |-> "m" ],
      [ model |-> "m" ] }

WithOptional(data, key, vals) == {data} \cup {Put(data, key, v) : v \in vals}

\* One question, every list of raw options up to MaxOptions
OptionPayloads ==
    { BasePayload(List(<<ShortQuestion(List(options))>>)) :
        options \in SeqsUpTo(OptionVals, MaxOptions) }

\* Every list of raw questions up to MaxQuestions, and non-lists
QuestionPayloads ==
    { BasePayload(List(questions)) : questions \in SeqsUpTo(QuestionVals, MaxQuestions) }
    \cup { BasePayload(Null), BasePayload(Str("Q?")) }

\* Two valid questions, with roadmap and metadata varied
RoadmapPayloads ==
    UNION { WithOptional(p, "metadata", MetadataVals) :
              p \in WithOptional(BasePayload(TwoQuestions), "roadmap", RoadmapVals) }

\* Two valid questions, with reference_videos varied
VideoPayloads ==
    WithOptional(BasePayload(TwoQuestions), "reference_videos", ReferenceVideosVals)

\* The top-level keys present or absent
TopLevelPayloads ==
    { Restrict(Put(BasePayload(TwoQuestions), "timestamp", "ts"), keys) :
        keys \in SUBSET {"username", "topic", "timestamp", "questions"} }

\* Texts: a JSON document or other text, with or without a code fence and
\* surrounding whitespace
TextInputs ==
    { Text(lead \o opening \o gap1 \o body \o gap2 \o closing \o trail) :
        lead \in {<<>>, <<" ">>},
        opening \in {<<>>, OpeningFence, ClosingFence},
        gap1 \in {<<>>, <<"\n">>},
        body \in {<<>>, <<"{oops">>} \cup {<<document>> : document \in JsonDocuments},
        gap2 \in {<<>>, <<"\n">>},
        closing \in {<<>>, ClosingFence},
        trail \in {<<>>, <<"\n">>} }

\* Values that are neither a dict nor a str
OtherInputs == {Null, List(<<>>), Num(0)}

RepairInputs ==
    OptionPayloads \cup QuestionPayloads \cup RoadmapPayloads \cup VideoPayloads
        \cup TopLevelPayloads \cup TextInputs \cup OtherInputs

----------------------------------------------------------------------------
(* A direct call of validate_mcq_json on a payload *)

InitRepair ==
    /\ pc = "call"
    /\ request = None
    /\ validated_request = None
    /\ raw_result \in RepairInputs
    /\ mcq_data = None
    /\ repaired_again = None
    /\ response = None
    /\ events = <<>>
    /\ llm_client = "empty"
    /\ inflight = <<>>
    /\ batch = None
    /\ llm_calls = None

\* raw_result keeps the payload as it was received; the repaired dict is
\* mcq_data.
CallValidateMcqJson ==
    /\ pc = "call"
    /\ mcq_data' = validate_mcq_json(raw_result)
    /\ pc' = "returned"
    /\ UNCHANGED <<request, validated_request, raw_result, repaired_again, response,
                   events, llm_client, inflight,
                   batch, llm_calls>>

\* validate_mcq_json called on the dict a successful call returned
CallValidateMcqJsonAgain ==
    /\ pc = "returned"
    /\ mcq_data.ok
    /\ repaired_again' = validate_mcq_json(mcq_data.val)
    /\ pc' = "returned again"
    /\ UNCHANGED <<request, validated_request, raw_result, mcq_data, response,
                   events, llm_client, inflight,
                   batch, llm_calls>>

NextRepair == CallValidateMcqJson \/ CallValidateMcqJsonAgain

SpecRepair == InitRepair /\ [][NextRepair]_vars

----------------------------------------------------------------------------
(* Properties of repair *)

Returned == pc \in {"returned", "returned again"}

Succeeded == Returned /\ mcq_data.ok

OutQuestions == mcq_data.val["questions"].list

\* The raw payload passes the top-level checks
RawTopLevelOk ==
    /\ IsMapping(raw_result)
    /\ {"username", "topic", "questions"} \subseteq DOMAIN raw_result
    /\ IsList(raw_result["questions"])

RawQuestions == raw_result["questions"].list

\* The raw payload holds exactly one question, a dict whose options are a list
OneRawQuestion ==
    /\ RawTopLevelOk
    /\ Len(RawQuestions) = 1
    /\ IsMapping(RawQuestions[1])
    /\ QuestionRequiredFields \subseteq DOMAIN RawQuestions[1]
    /\ IsList(RawQuestions[1]["options"])

RawOptions == RawQuestions[1]["options"].list

Min(a, b) == IF a < b THEN a ELSE b

\* The raw options that remain after truncation to 4
RawKept == SubSeq(RawOptions, 1, Min(Len(RawOptions), 4))

RawCorrectIdx == {i \in 1..Len(RawKept) : IsMapping(RawKept[i]) /\ IsCorrect(RawKept[i])}

CorrectIdx(options) == {i \in 1..Len(options) : IsCorrect(options[i])}

\* C1: in the output of a successful repair every question has exactly 4
\* options, exactly one of them with is_correct = true.
C1_OptionInvariant ==
    Succeeded =>
        \A i \in 1..Len(OutQuestions) :
            /\ Len(OutQuestions[i]["options"].list) = 4
            /\ Cardinality(CorrectIdx(OutQuestions[i]["options"].list)) = 1

\* A repair that succeeded on one question with more than 4 raw options, two
\* of the first four marked correct.
C1_Witness ==
    /\ Succeeded /\ OneRawQuestion
    /\ Len(RawOptions) > 4
    /\ Cardinality(RawCorrectIdx) = 2

\* No raw question survives per-question repair
NoSurvivor == \A i \in 1..Len(RawQuestions) : ~ValidateQuestion(RawQuestions[i], i).ok

\* C2: a returned response never has an empty questions sequence; when no
\* raw question survives, repair fails with "No valid questions found".
C2_NeverEmpty ==
    Returned =>
        /\ mcq_data.ok => Len(OutQuestions) > 0
        /\ (RawTopLevelOk /\ NoSurvivor) =>
                (~mcq_data.ok /\ mcq_data.err = "No valid questions found")

\* Repair failed on two raw questions, each lacking a required field.
C2_Witness ==
    /\ Returned /\ RawTopLevelOk
    /\ Len(RawQuestions) = 2
    /\ \A i \in 1..2 : IsMapping(RawQuestions[i])
                           /\ ~(QuestionRequiredFields \subseteq DOMAIN RawQuestions[i])
    /\ ~mcq_data.ok

Complete(q) == IsMapping(q) /\ QuestionRequiredFields \subseteq DOMAIN q

WellFormed(q) ==
    /\ Complete(q)
    /\ IsList(q["options"])
    /\ \A j \in 1..Len(q["options"].list) : IsMapping(q["options"].list[j])

CompleteIdx == {i \in 1..Len(RawQuestions) : Complete(RawQuestions[i])}

WellFormedIdx == {i \in 1..Len(RawQuestions) : WellFormed(RawQuestions[i])}

SameQuestion(out, raw) ==
    /\ Get(out, "question_text", PyNone) = raw["question_text"]
    /\ Get(out, "explanation", PyNone) = raw["explanation"]
    /\ Get(out, "difficulty", PyNone) = raw["difficulty"]

NoOptionalKeys == (DOMAIN raw_result) \cap {"roadmap", "reference_videos", "metadata"} = {}

\* C3: the output questions are, in order, raw questions that have all four
\* required fields, among them every raw question with a list of dict
\* options; and dropping the others does not make repair fail.
C3_DropPolicy ==
    (Returned /\ RawTopLevelOk) =>
        /\ (WellFormedIdx # {} /\ NoOptionalKeys) => mcq_data.ok
        /\ WellFormedIdx # {} => (mcq_data.ok \/ mcq_data.err # "No valid questions found")
        /\ mcq_data.ok =>
              \E S \in SUBSET CompleteIdx :
                  /\ WellFormedIdx \subseteq S
                  /\ Len(OutQuestions) = Cardinality(S)
                  /\ \A i \in S :
                        SameQuestion(OutQuestions[Cardinality({j \in S : j <= i})],
                                     RawQuestions[i])

\* Repair succeeded on two raw questions: one lacking "explanation", dropped,
\* and a well-formed one, kept.
C3_Witness ==
    /\ Succeeded /\ RawTopLevelOk
    /\ Len(RawQuestions) = 2
    /\ \E i \in 1..2 : IsMapping(RawQuestions[i]) /\ ~Has(RawQuestions[i], "explanation")
    /\ Cardinality(WellFormedIdx) = 1
    /\ Len(OutQuestions) = 1

\* C4: when more than one of the (padded / truncated) options is marked
\* correct, the option left true is the first one that was originally marked
\* correct, and every other option is false.
C4_KeepFirstCorrect ==
    (Succeeded /\ OneRawQuestion /\ Cardinality(RawCorrectIdx) > 1) =>
        CorrectIdx(OutQuestions[1]["options"].list) =
            {CHOOSE i \in RawCorrectIdx : \A j \in RawCorrectIdx : i <= j}

\* C5: when none of the (padded / truncated) options is marked correct, the
\* first option is forced to true and the other three are false.
C5_ForceFirst ==
    (Succeeded /\ OneRawQuestion /\ RawCorrectIdx = {}) =>
        /\ CorrectIdx(OutQuestions[1]["options"].list) = {1}
        /\ \A i \in 2..4 : OutQuestions[1]["options"].list[i]["is_correct"] = FALSE

\* Repair succeeded on five raw options of which only the fifth was correct.
C5_Witness ==
    /\ Succeeded /\ OneRawQuestion
    /\ Len(RawOptions) = 5
    /\ RawCorrectIdx = {}
    /\ IsMapping(RawOptions[5]) /\ IsCorrect(RawOptions[5])

Placeholder(k) ==
    [option |-> <<"Option 1", "Option 2", "Option 3", "Option 4">>[k], is_correct |-> FALSE]

\* What C6 says the padded / truncated list is
C6_Expected ==
    [k \in 1..4 |-> IF k <= Len(RawOptions) THEN RawOptions[k] ELSE Placeholder(k)]

\* C6: n < 4 raw options are kept in order and followed by the placeholders
\* "Option n+1" .. "Option 4", all false; of n > 4 raw options exactly the
\* first 4 are kept in order.  The repaired question carries these options,
\* texts unchanged (their flags are then normalised, C4 and C5).
C6_PadTruncate ==
    (Returned /\ OneRawQuestion /\ Len(RawOptions) # 4) =>
        /\ PadOrTruncate(RawOptions) = C6_Expected
        /\ mcq_data.ok =>
              /\ Len(OutQuestions[1]["options"].list) = 4
              /\ \A k \in 1..4 :
                    Get(OutQuestions[1]["options"].list[k], "option", PyNone)
                        = Get(C6_Expected[k], "option", PyNone)

\* Repair succeeded on two raw options (padded).
C6_WitnessPad == Succeeded /\ OneRawQuestion /\ Len(RawOptions) = 2

\* Repair succeeded on five raw options (truncated).
C6_Witness ==
    /\ Succeeded /\ OneRawQuestion /\ Len(RawOptions) = 5
    /\ RawOptions[5] # RawOptions[4]

OutMetadata == mcq_data.val["metadata"]

OutVideos == mcq_data.val["reference_videos"].list

\* C7: no entry of the repaired reference_videos lacks (or has an empty)
\* title, url or difficulty_level, or has a url that starts with neither
\* "http://" nor "https://".
C7_VideoFilter ==
    (Succeeded /\ Has(raw_result, "reference_videos")
               /\ IsList(raw_result["reference_videos"])
               /\ Truthy(raw_result["reference_videos"])) =>
        \A k \in 1..Len(OutVideos) :
            /\ Has(OutVideos[k], "title") /\ OutVideos[k]["title"] # ""
            /\ Has(OutVideos[k], "url") /\ HasAcceptedScheme(OutVideos[k]["url"])
            /\ Has(OutVideos[k], "difficulty_level") /\ OutVideos[k]["difficulty_level"] # ""

FalsyOrAbsent(key) == ~Has(raw_result, key) \/ ~Truthy(raw_result[key])

\* C8: with at least one valid question, a roadmap (reference_videos) that is
\* absent, null or otherwise falsy is skipped and repair succeeds, with
\* has_roadmap = false and roadmap_steps = 0 (has_reference_videos = false and
\* reference_video_count = 0).  Stated for payloads that carry no metadata of
\* their own.
C8_FalsyOptionalSkipped ==
    (Returned /\ RawTopLevelOk /\ WellFormedIdx # {} /\ ~Has(raw_result, "metadata")) =>
        /\ FalsyOrAbsent("roadmap") =>
              /\ mcq_data.ok
              /\ OutMetadata["has_roadmap"] = FALSE
              /\ OutMetadata["roadmap_steps"] = 0
        /\ FalsyOrAbsent("reference_videos") =>
              /\ mcq_data.ok
              /\ OutMetadata["has_reference_videos"] = FALSE
              /\ OutMetadata["reference_video_count"] = 0

OutDifficulties == {OutQuestions[i]["difficulty"] : i \in 1..Len(OutQuestions)}

\* difficulty value -> number of surviving questions with that value
OutDistribution ==
    [d \in OutDifficulties |->
        Cardinality({i \in 1..Len(OutQuestions) : OutQuestions[i]["difficulty"] = d})]

\* C10 as stated: total_questions is the number of surviving questions and
\* difficulty_distribution counts them per difficulty value.
C10_MetadataAccuracy ==
    Succeeded =>
        /\ OutMetadata["total_questions"] = Len(OutQuestions)
        /\ OutMetadata["difficulty_distribution"] = OutDistribution

\* The metadata dict the raw payload carries, if any
SuppliedMetadata == Get(raw_result, "metadata", EmptyDict)

\* C10 as amended: total_questions and difficulty_distribution are the count
\* of surviving questions and their count per difficulty value, except that a
\* key supplied by the raw payload's own metadata keeps the supplied value.
C10_MetadataAccuracyUnlessSupplied ==
    Succeeded =>
        /\ OutMetadata["total_questions"] =
              Get(SuppliedMetadata, "total_questions", Len(OutQuestions))
        /\ OutMetadata["difficulty_distribution"] =
              Get(SuppliedMetadata, "difficulty_distribution", OutDistribution)

\* Repair succeeded on a payload without metadata, dropping one of two raw
\* questions.
C10_Witness ==
    /\ Succeeded /\ RawTopLevelOk /\ ~Has(raw_result, "metadata")
    /\ Len(RawQuestions) = 2 /\ Len(OutQuestions) = 1
    /\ OutMetadata["total_questions"] = 1

OutRoadmap == Get(mcq_data.val, "roadmap", Null)

OutReferenceVideos == Get(mcq_data.val, "reference_videos", Null)

\* C11: when the raw payload carries a metadata mapping, each of its keys is in
\* the repaired metadata with the payload's value, and each computed key the
\* payload's metadata does not have keeps its computed value.
C11_MetadataMerge ==
    (Succeeded /\ Has(raw_result, "metadata") /\ IsMapping(raw_result["metadata"])) =>
        /\ \A k \in DOMAIN SuppliedMetadata :
              Has(OutMetadata, k) /\ OutMetadata[k] = SuppliedMetadata[k]
        /\ ~Has(SuppliedMetadata, "total_questions") =>
              OutMetadata["total_questions"] = Len(OutQuestions)
        /\ ~Has(SuppliedMetadata, "difficulty_distribution") =>
              OutMetadata["difficulty_distribution"] = OutDistribution
        /\ ~Has(SuppliedMetadata, "has_roadmap") =>
              OutMetadata["has_roadmap"] = Truthy(OutRoadmap)
        /\ ~Has(SuppliedMetadata, "has_reference_videos") =>
              OutMetadata["has_reference_videos"] = Truthy(OutReferenceVideos)
        /\ ~Has(SuppliedMetadata, "roadmap_steps") =>
              OutMetadata["roadmap_steps"] =
                  (IF IsList(OutRoadmap) THEN Len(OutRoadmap.list) ELSE 0)
        /\ ~Has(SuppliedMetadata, "reference_video_count") =>
              OutMetadata["reference_video_count"] =
                  (IF IsList(OutReferenceVideos) THEN Len(OutReferenceVideos.list) ELSE 0)
        /\ ~Has(SuppliedMetadata, "validation_timestamp") =>
              OutMetadata["validation_timestamp"] = Now

\* Repair succeeded on a payload without roadmap whose metadata says
\* has_roadmap = true and roadmap_steps = 8: the keys collide with computed
\* ones and the payload's values are kept.
C11_Witness ==
    /\ Succeeded /\ ~Has(raw_result, "roadmap")
    /\ Has(raw_result, "metadata") /\ IsMapping(raw_result["metadata"])
    /\ Has(SuppliedMetadata, "has_roadmap") /\ SuppliedMetadata["has_roadmap"]
    /\ OutMetadata["roadmap_steps"] = 8
    /\ OutMetadata["total_questions"] = 2

MissingFieldErrors ==
    { "Missing required field: username", "Missing required field: topic",
      "Missing required field: questions" }

\* C14: repair of a parsed payload fails when username, topic or questions is
\* absent and when questions is not a list; a payload lacking only timestamp
\* fares as the same payload with a timestamp does, and its output carries
\* the current time as timestamp; a supplied timestamp is kept.
C14_BasicStructure ==
    (Returned /\ IsMapping(raw_result)) =>
        /\ (\E f \in {"username", "topic", "questions"} : ~Has(raw_result, f)) =>
              (~mcq_data.ok /\ mcq_data.err \in MissingFieldErrors)
        /\ ({"username", "topic", "questions"} \subseteq DOMAIN raw_result
               /\ ~IsList(raw_result["questions"])) =>
              (~mcq_data.ok /\ mcq_data.err = "'questions' must be an array")
        /\ ~Has(raw_result, "timestamp") =>
              (mcq_data.ok <=> validate_mcq_json(Put(raw_result, "timestamp", "ts")).ok)
        /\ mcq_data.ok =>
              /\ Has(mcq_data.val, "timestamp")
              /\ mcq_data.val["timestamp"] = Get(raw_result, "timestamp", Now)

\* Repair succeeded on a payload without timestamp; the output has one.
C14_Witness ==
    /\ Succeeded /\ ~Has(raw_result, "timestamp")
    /\ mcq_data.val["timestamp"] = Now

\* Repair succeeded on a payload with a timestamp, which the output keeps.
C14_WitnessSupplied ==
    /\ Succeeded /\ Has(raw_result, "timestamp")
    /\ mcq_data.val["timestamp"] = "ts"

\* The texts that wrap a document in a code fence
Fenced(document) ==
    { lead \o OpeningFence \o gap1 \o <<document>> \o gap2 \o ClosingFence \o trail :
        lead \in {<<>>, <<" ">>}, gap1 \in {<<>>, <<"\n">>}, gap2 \in {<<>>, <<"\n">>},
        trail \in {<<>>, <<"\n">>} }

TextElements == {raw_result.text[i] : i \in 1..Len(raw_result.text)}

\* C20: a text that wraps a JSON document in a json code fence repairs to the
\* result of the unwrapped document (and of the dict it denotes); a text that
\* holds no JSON document, or text that is not JSON, fails with "Invalid JSON
\* format".
C20_CodeFence ==
    (Returned /\ IsText(raw_result)) =>
        /\ \A document \in JsonDocuments :
              raw_result.text \in Fenced(document) =>
                  /\ mcq_data = validate_mcq_json(Text(<<document>>))
                  /\ IsMapping(JsonValue(document)) =>
                        mcq_data = validate_mcq_json(JsonValue(document))
        /\ (TextElements \cap JsonDocuments = {} \/ "{oops" \in TextElements) =>
              (~mcq_data.ok /\ mcq_data.err = "Invalid JSON format")

\* Repair succeeded on a fenced document.
C20_Witness ==
    /\ Succeeded /\ IsText(raw_result)
    /\ raw_result.text \in Fenced("{two}")
    /\ Len(OutQuestions) = 2

\* Repair failed on fenced text that is not JSON.
C20_WitnessFails ==
    /\ Returned /\ IsText(raw_result)
    /\ StartsWith(raw_result.text, OpeningFence) /\ "{oops" \in TextElements
    /\ ~mcq_data.ok

RepairedAgain == pc = "returned again"

ResponseFields == {"username", "topic", "timestamp", "questions", "roadmap", "reference_videos"}

\* C16: repair applied to the output of a successful repair that the response
\* schema accepts succeeds and returns the same username, topic, timestamp,
\* questions, roadmap and reference_videos.
C16_Idempotent ==
    (RepairedAgain /\ ValidMCQResponse(mcq_data.val)) =>
        /\ repaired_again.ok
        /\ \A k \in ResponseFields : repaired_again.val[k] = mcq_data.val[k]

\* Some raw question survives per-question repair
SomeSurvivor == \E i \in 1..Len(RawQuestions) : ValidateQuestion(RawQuestions[i], i).ok

\* C21: a parsed payload that has username, topic and a questions list with at
\* least one question that survives per-question repair is repaired
\* successfully, whatever its roadmap, reference_videos, metadata and other
\* questions are.
C21_OnlyListedFailures ==
    (Returned /\ RawTopLevelOk /\ SomeSurvivor) => mcq_data.ok

\* The raw questions that survive per-question repair, by 1-based raw index
SurvivorIdx == {i \in 1..Len(RawQuestions) : ValidateQuestion(RawQuestions[i], i).ok}

\* The place in the output of the surviving raw question i
OutPos(i) == Cardinality({j \in SurvivorIdx : j <= i})

\* C22: a surviving question that arrived without question_id has question_id
\* equal to its 1-based place in the raw questions list (0-based index + 1),
\* not its place among the survivors; a supplied question_id is kept.
C22_QuestionId ==
    (Succeeded /\ RawTopLevelOk) =>
        /\ Len(OutQuestions) = Cardinality(SurvivorIdx)
        /\ \A i \in SurvivorIdx :
              OutQuestions[OutPos(i)]["question_id"] =
                  Get(RawQuestions[i], "question_id", i)

\* Repair dropped the first raw question and kept the second, which had no
\* question_id and now has 2.
C22_Witness ==
    /\ Succeeded /\ RawTopLevelOk
    /\ Len(RawQuestions) = 2 /\ SurvivorIdx = {2}
    /\ ~Has(RawQuestions[2], "question_id")
    /\ OutQuestions[1]["question_id"] = 2

\* Repair kept a supplied question_id that differs from the question's place.
C22_WitnessSupplied ==
    /\ Succeeded /\ RawTopLevelOk
    /\ 1 \in SurvivorIdx /\ Has(RawQuestions[1], "question_id")
    /\ OutQuestions[1]["question_id"] = 7

OutQuestionIds == {OutQuestions[i]["question_id"] : i \in 1..Len(OutQuestions)}

\* C23: in the output of a successful repair no two questions share a
\* question_id.
C23_UniqueIds ==
    Succeeded => Cardinality(OutQuestionIds) = Len(OutQuestions)

\* Repair numbered the second raw question 2 while the first one carries the
\* supplied question_id 2.
PositionalIdCollides ==
    /\ Succeeded /\ RawTopLevelOk /\ SurvivorIdx = {1, 2}
    /\ Has(RawQuestions[1], "question_id") /\ ~Has(RawQuestions[2], "question_id")
    /\ OutQuestions[1]["question_id"] = OutQuestions[2]["question_id"]

\* The raw payload has a roadmap that is a list of dicts
RawRoadmapOfMappings ==
    /\ IsMapping(raw_result) /\ Has(raw_result, "roadmap")
    /\ IsList(raw_result["roadmap"])
    /\ \A i \in 1..Len(raw_result["roadmap"].list) : IsMapping(raw_result["roadmap"].list[i])

RawRoadmap == raw_result["roadmap"].list

StepFields == {"title", "description", "estimated_duration"}

\* C24: a roadmap that is a list of dicts is repaired to a list of the same
\* length that holds the steps in order, title, description and
\* estimated_duration as they came (present, empty or missing); a step
\* without step_number has its 1-based place as step_number, a supplied one is
\* kept; prerequisites is the supplied list, or the empty list when it was
\* absent or not a list.
C24_RoadmapRetained ==
    (Succeeded /\ RawRoadmapOfMappings) =>
        /\ IsList(OutRoadmap)
        /\ Len(OutRoadmap.list) = Len(RawRoadmap)
        /\ \A i \in 1..Len(RawRoadmap) :
              /\ \A f \in StepFields :
                    /\ Has(OutRoadmap.list[i], f) <=> Has(RawRoadmap[i], f)
                    /\ Has(RawRoadmap[i], f) => OutRoadmap.list[i][f] = RawRoadmap[i][f]
              /\ OutRoadmap.list[i]["step_number"] = Get(RawRoadmap[i], "step_number", i)
              /\ OutRoadmap.list[i]["prerequisites"] =
                    (IF Has(RawRoadmap[i], "prerequisites")
                          /\ IsList(RawRoadmap[i]["prerequisites"])
                     THEN RawRoadmap[i]["prerequisites"]
                     ELSE List(<<>>))

\* Repair kept a second step that has no title, numbered it 2 and gave it
\* empty prerequisites.
C24_Witness ==
    /\ Succeeded /\ RawRoadmapOfMappings
    /\ Len(RawRoadmap) = 2
    /\ ~Has(RawRoadmap[2], "title") /\ ~Has(RawRoadmap[2], "step_number")
    /\ Len(OutRoadmap.list) = 2
    /\ OutRoadmap.list[2]["step_number"] = 2
    /\ OutRoadmap.list[2]["prerequisites"] = List(<<>>)

\* Repair kept a step with an empty title and replaced its prerequisites,
\* which were a string, by the empty list.
C24_WitnessNotAList ==
    /\ Succeeded /\ RawRoadmapOfMappings
    /\ Len(RawRoadmap) >= 1
    /\ Has(RawRoadmap[1], "prerequisites") /\ ~IsList(RawRoadmap[1]["prerequisites"])
    /\ OutRoadmap.list[1]["title"] = ""
    /\ OutRoadmap.list[1]["prerequisites"] = List(<<>>)

\* The raw payload has a non-empty list of reference videos
RawVideosList ==
    /\ IsMapping(raw_result) /\ Has(raw_result, "reference_videos")
    /\ IsList(raw_result["reference_videos"])
    /\ Len(raw_result["reference_videos"].list) > 0

RawVideos == raw_result["reference_videos"].list

\* A raw video with title, difficulty_level and an http / https url
AcceptableVideo(v) ==
    /\ IsMapping(v)
    /\ {"title", "url", "difficulty_level"} \subseteq DOMAIN v
    /\ HasAcceptedScheme(v["url"])

\* The raw videos that repair keeps, by 1-based raw index
KeptVideoIdx == {i \in 1..Len(RawVideos) : ValidateVideo(RawVideos[i]).ok}

VideoPos(i) == Cardinality({j \in KeptVideoIdx : j <= i})

\* C25: a raw reference video that has title, difficulty_level and a url
\* starting with "http://" or "https://" is in the repaired list, in order,
\* title, url and difficulty_level unchanged, with duration "Unknown" and
\* description "Educational video content" when they were absent and the
\* supplied values otherwise.
C25_VideoDefaults ==
    (Succeeded /\ RawVideosList) =>
        /\ Len(OutVideos) = Cardinality(KeptVideoIdx)
        /\ \A i \in 1..Len(RawVideos) :
              AcceptableVideo(RawVideos[i]) =>
                  /\ i \in KeptVideoIdx
                  /\ \A f \in {"title", "url", "difficulty_level"} :
                        OutVideos[VideoPos(i)][f] = RawVideos[i][f]
                  /\ OutVideos[VideoPos(i)]["duration"] =
                        Get(RawVideos[i], "duration", "Unknown")
                  /\ OutVideos[VideoPos(i)]["description"] =
                        Get(RawVideos[i], "description", "Educational video content")

\* Repair kept an http video that had neither duration nor description, after
\* dropping an ftp one.
C25_Witness ==
    /\ Succeeded /\ RawVideosList
    /\ Len(RawVideos) = 2
    /\ ~(1 \in KeptVideoIdx)
    /\ AcceptableVideo(RawVideos[2])
    /\ ~Has(RawVideos[2], "duration") /\ ~Has(RawVideos[2], "description")
    /\ Len(OutVideos) = 1
    /\ OutVideos[1]["duration"] = "Unknown"
    /\ OutVideos[1]["description"] = "Educational video content"

\* Repair kept a video with its own duration and description.
C25_WitnessSupplied ==
    /\ Succeeded /\ RawVideosList
    /\ AcceptableVideo(RawVideos[1])
    /\ Has(RawVideos[1], "duration") /\ Has(RawVideos[1], "description")
    /\ OutVideos[1]["duration"] = "5:00"
    /\ OutVideos[1]["description"] = "D"

----------------------------------------------------------------------------
(* Request normalisation: validate_request_data *)

\* Usernames are sequences of characters, so that str.replace and
\* str.isalnum are computed.  The character classes of the characters used:
Letters == {"a", "Z"}

Digits == {"7"}

\* s.replace(c, "")
RECURSIVE RemoveChar(_, _)
RemoveChar(s, c) ==
    IF s = <<>> THEN <<>>
    ELSE IF Head(s) = c THEN RemoveChar(Tail(s), c)
    ELSE <<Head(s)>> \o RemoveChar(Tail(s), c)

\* Characters that are neither letters nor digits but numeric in Unicode,
\* such as the vulgar fraction one half (written by name): str.isalnum is
\* isalpha or isdecimal or isdigit or isnumeric, and accepts them.
OtherNumeric == {"one-half"}

\* s.isalnum(): non-empty and every character alphabetic or numeric
IsAlnum(s) ==
    Len(s) > 0 /\ \A i \in 1..Len(s) : s[i] \in Letters \cup Digits \cup OtherNumeric

DefaultQuestionCount == 20

MinQuestionCount == 5

MaxQuestionCount == 50

\* `not request_data[field]` for the two required fields: username is a
\* character sequence, topic a string
Empty(field, value) == IF field = "username" THEN value = <<>> ELSE value = ""

\* question_count is a tagged value: Num(n) is an int
ValidQuestionCount(question_count) ==
    /\ "num" \in DOMAIN question_count
    /\ question_count.num >= MinQuestionCount
    /\ question_count.num <= MaxQuestionCount

\* A variant that only replaces a question_count that is not an int
FixQuestionCountMutantAnyInt(request_data) ==
    IF "num" \in DOMAIN request_data["question_count"] THEN request_data
    ELSE Put(request_data, "question_count", Num(DefaultQuestionCount))

\* lines 314-318
FixQuestionCount(request_data) ==
    IF ValidQuestionCount(request_data["question_count"]) THEN request_data
    ELSE Put(request_data, "question_count", Num(DefaultQuestionCount))

validate_request_data(request_data) ==
    IF \E field \in {"username", "topic"} :
           ~Has(request_data, field) \/ Empty(field, request_data[field])
    THEN Raise("Missing or empty required field")
    ELSE IF ~IsAlnum(RemoveChar(RemoveChar(request_data["username"], "_"), "-"))
    THEN Raise("Username must contain only alphanumeric characters, hyphens, and underscores")
    ELSE Ok(FixQuestionCount(
                SetDefault(SetDefault(SetDefault(SetDefault(request_data,
                    "difficulty", "mixed"),
                    "question_count", Num(DefaultQuestionCount)),
                    "include_roadmap", TRUE),
                    "include_videos", TRUE)))

----------------------------------------------------------------------------
(* A direct call of validate_request_data on a request dict *)

MaxUsernameLen == 2

UsernameChars == {"a", "7", "_", "-", ".", " ", "one-half"}

\* question_count values: ints, None, a str, a bool and a float
QuestionCountVals ==
    { Num(-1), Num(4), Num(5), Num(20), Num(50), Num(51), Num(1000),
      Null, Str("10"), Bool(TRUE), [float |-> 10] }

\* Request dicts with each field present or absent
NormalizeInputs ==
    UNION { WithOptional(r2, "question_count", QuestionCountVals) :
      r2 \in UNION { WithOptional(r1, "topic", {"", "t"}) :
      r1 \in UNION { WithOptional(r0, "username", SeqsUpTo(UsernameChars, MaxUsernameLen)) :
      r0 \in { EmptyDict,
               [difficulty |-> "basic", include_roadmap |-> FALSE, include_videos |-> FALSE] }
      } } }

InitNormalize ==
    /\ pc = "call"
    /\ request \in NormalizeInputs
    /\ validated_request = None
    /\ raw_result = None
    /\ mcq_data = None
    /\ repaired_again = None
    /\ response = None
    /\ events = <<>>
    /\ llm_client = "empty"
    /\ inflight = <<>>
    /\ batch = None
    /\ llm_calls = None

\* validated_request is the dict returned, or the MCQValidationError raised
CallValidateRequestData ==
    /\ pc = "call"
    /\ validated_request' = validate_request_data(request)
    /\ pc' = "returned"
    /\ UNCHANGED <<request, raw_result, mcq_data, repaired_again, response, events,
                   llm_client, inflight,
                   batch, llm_calls>>

NextNormalize == CallValidateRequestData

SpecNormalize == InitNormalize /\ [][NextNormalize]_vars

Normalized == pc = "returned"

\* The supplied question_count is an int in [5, 50]
SuppliedCountInRange ==
    /\ Has(request, "question_count")
    /\ "num" \in DOMAIN request["question_count"]
    /\ request["question_count"].num >= 5
    /\ request["question_count"].num <= 50

\* C12: validate_request_data never fails because of question_count (it
\* succeeds exactly when it does with question_count = 20), and on success
\* question_count is the supplied value when that is an int in [5, 50] and 20
\* otherwise, so always an int in [5, 50].
C12_QuestionCount ==
    Normalized =>
        /\ validated_request.ok <=>
              validate_request_data(Put(request, "question_count", Num(20))).ok
        /\ validated_request.ok =>
              /\ validated_request.val["question_count"] =
                    (IF SuppliedCountInRange THEN request["question_count"] ELSE Num(20))
              /\ "num" \in DOMAIN validated_request.val["question_count"]
              /\ validated_request.val["question_count"].num \in 5..50

\* A request with question_count = 1000 was normalised to 20.
C12_Witness ==
    /\ Normalized /\ validated_request.ok
    /\ Has(request, "question_count") /\ request["question_count"] = Num(1000)
    /\ validated_request.val["question_count"] = Num(20)

\* A request with question_count = 50 kept it.
C12_WitnessKept ==
    /\ Normalized /\ validated_request.ok
    /\ Has(request, "question_count") /\ request["question_count"] = Num(50)
    /\ validated_request.val["question_count"] = Num(50)

AllowedUsernameChars == {"a", "Z", "7", "_", "-"}

\* C13: validate_request_data fails when username or topic is missing or
\* empty and when username has a character that is not a letter, a digit, a
\* hyphen or an underscore.
C13_InvalidRequest ==
    Normalized =>
        /\ (~Has(request, "username") \/ ~Has(request, "topic")) => ~validated_request.ok
        /\ (Has(request, "username") /\ request["username"] = <<>>) => ~validated_request.ok
        /\ (Has(request, "topic") /\ request["topic"] = "") => ~validated_request.ok
        /\ (Has(request, "username")
               /\ \E i \in 1..Len(request["username"]) :
                      request["username"][i] \notin AllowedUsernameChars) =>
              ~validated_request.ok

\* C26: validate_request_data succeeds on every request whose topic is
\* non-empty and whose username is non-empty and made only of letters, digits,
\* hyphens and underscores, usernames of hyphens and underscores alone
\* included.
C26_UsernameAccepted ==
    (Normalized /\ Has(request, "topic") /\ request["topic"] # ""
                /\ Has(request, "username") /\ request["username"] # <<>>
                /\ \A i \in 1..Len(request["username"]) :
                       request["username"][i] \in AllowedUsernameChars) =>
        validated_request.ok

----------------------------------------------------------------------------
(* The orchestrator: generate_mcq *)

MaxElapsed == 1

\* Requests as the transport hands them over: MCQRequest has accepted them
\* (username of 2..50 characters matching ^[a-zA-Z0-9_-]+$) and .dict()
\* carries all six fields.
Requests ==
    { [ username |-> u, topic |-> "t", difficulty |-> "mixed", question_count |-> c,
        include_roadmap |-> r, include_videos |-> v ] :
        u \in {<<"a", "7">>, <<"Z", "_">>, <<"_", "-">>},
        c \in {Num(5), Null},
        r \in BOOLEAN, v \in BOOLEAN }

SchemaQuestions ==
    { TwoQuestions, List(<<ShortQuestion(List(GoodOptions))>>),
      List(<<PlainQuestion("weird")>>), List(<<>>) }

\* What the chain may return to the orchestrator
BackendPayloads ==
    UNION { WithOptional(p2, "metadata", {[ generation_time_seconds |-> 0,
                                           difficulty_distribution |-> EmptyDict,
                                           total_questions |-> 20 ],
                                         [ generation_time_seconds |-> 99,
                                           username |-> <<"x">>, topic |-> "x",
                                           request_timestamp |-> "then",
                                           model |-> "m" ]}) :
      p2 \in UNION { WithOptional(p1, "reference_videos",
                        { Null, List(<<>>), List(<<FullVideo("https")>>),
                          List(<<Restrict(FullVideo("https"),
                                          {"url", "duration", "difficulty_level", "description"})>>),
                          Str("<<SEARCH_VIDEOS>>") }) :
      p1 \in UNION { WithOptional(BasePayload(q), "roadmap",
                        { Null, List(<<>>),
                          List(<<[ step_number |-> 1, title |-> "T", description |-> "D",
                                   estimated_duration |-> "1h",
                                   prerequisites |-> List(<<"p">>) ]>>),
                          List(<<[ description |-> "D", estimated_duration |-> "1h" ]>>) }) :
      q \in SchemaQuestions } } }

\* lines 224-228
generation_metadata(req) ==
    [request_timestamp |-> Now, username |-> req["username"], topic |-> req["topic"]]

\* Exceptions in flight: HTTPException carries a status code
HTTPException(status_code, detail) ==
    [type |-> "HTTPException", status_code |-> status_code, detail |-> detail]

MCQValidationError(detail) == [type |-> "MCQValidationError", status_code |-> 0, detail |-> detail]

\* Any other exception class, by name
OtherException(name) == [type |-> name, status_code |-> 0, detail |-> name]

\* The JSON error response of main.py's handler for HTTPException
HttpError(status_code, detail) == [status |-> status_code, detail |-> detail]

\* A variant in which the keys of the repaired metadata win over the
\* orchestrator's
AttachGenerationMetadataMutantPayloadWins(req, validated, elapsed) ==
    IF ~validated.ok THEN validated
    ELSE Ok(Put(validated.val, "metadata",
                Update(Put(generation_metadata(req), "generation_time_seconds", elapsed),
                       validated.val["metadata"])))

\* lines 253-258: the repaired dict with the orchestrator's metadata, or the
\* MCQValidationError of validate_mcq_json
AttachGenerationMetadata(req, validated, elapsed) ==
    IF ~validated.ok THEN validated
    ELSE Ok(Put(validated.val, "metadata",
                Update(Put(validated.val["metadata"], "generation_time_seconds", elapsed),
                       generation_metadata(req))))

ProcessGenerated(req, raw, elapsed) ==
    AttachGenerationMetadata(req, validate_mcq_json(raw), elapsed)

\* A variant that returns the repaired dict without building the response
\* model
AssembleMutantNoSchema(processed) ==
    IF ~processed.ok
    THEN Raise(MCQValidationError(processed.err))
    ELSE IF \/ ~HasLen(Get(processed.val, "roadmap", List(<<>>)))
            \/ ~HasLen(Get(processed.val, "reference_videos", List(<<>>)))
    THEN Raise(OtherException("TypeError"))
    ELSE Ok(processed.val)

\* lines 260-271: the response model built from a repaired dict.  len() of a
\* roadmap or reference_videos that is None raises TypeError (lines 262-263),
\* and MCQResponse(**mcq_data) may raise ValidationError (line 271).
Assemble(processed) ==
    IF ~processed.ok
    THEN Raise(MCQValidationError(processed.err))
    ELSE IF \/ ~HasLen(Get(processed.val, "roadmap", List(<<>>)))
            \/ ~HasLen(Get(processed.val, "reference_videos", List(<<>>)))
    THEN Raise(OtherException("TypeError"))
    ELSE IF ~ValidMCQResponse(processed.val)
    THEN Raise(OtherException("ValidationError"))
    ELSE Ok(MCQResponseDict(processed.val))

\* A variant without the `except MCQValidationError` clause of line 273
ExceptProcessingMutantNoValidationClause(result) ==
    IF result.ok \/ result.err.type = "MCQValidationError" THEN result
    ELSE Raise(HTTPException(500, "Error processing generated content"))

\* lines 273-285: the except clauses of the processing block
ExceptProcessing(result) ==
    IF result.ok THEN result
    ELSE IF result.err.type = "MCQValidationError"
    THEN Raise(HTTPException(500, "Error processing generated content: MCQValidationError"))
    ELSE Raise(HTTPException(500, "Error processing generated content"))

\* lines 244-249: the except clause around the awaited call
ExceptTimeout(result) ==
    IF ~result.ok /\ result.err.type = "TimeoutError"
    THEN Raise(HTTPException(504,
                 "MCQ generation timed out. Please try with a smaller question count."))
    ELSE result

\* A variant without the `except HTTPException: raise` clause of line 287
ExceptOuterMutantNoReraise(result) ==
    IF result.ok THEN result
    ELSE IF result.err.type = "MCQValidationError"
    THEN Raise(HTTPException(400, result.err.detail))
    ELSE Raise(HTTPException(500, "An unexpected error occurred during MCQ generation"))

\* lines 287-304: the except clauses of the outer try
ExceptOuter(result) ==
    IF result.ok THEN result
    ELSE IF result.err.type = "HTTPException" THEN result
    ELSE IF result.err.type = "MCQValidationError"
    THEN Raise(HTTPException(400, result.err.detail))
    ELSE Raise(HTTPException(500, "An unexpected error occurred during MCQ generation"))

\* What the client receives: the response model, or the error response with
\* the status code of the HTTPException
HttpResponse(result) ==
    IF result.ok THEN [status |-> 200, body |-> result.val]
    ELSE HttpError(result.err.status_code, result.err.detail)

\* The response to the value the chain returned (lines 251-304)
Respond(processed) == HttpResponse(ExceptOuter(ExceptProcessing(Assemble(processed))))

\* The names bound in one invocation of generate_mcq, with the sequence of
\* calls and exceptions of the invocation so far
InitialLocals(req) ==
    [ pc |-> "received", request |-> req, validated_request |-> None, raw_result |-> None,
      mcq_data |-> None, response |-> None, events |-> <<>> ]

\* verify_llm_connection raises (lines 42-47): the handler is not entered
UnavailableStep(loc) ==
    [loc EXCEPT !.pc = "done",
                !.events = <<"verify_llm_connection">>,
                !.response = HttpResponse(Raise(HTTPException(503,
                                "AI service temporarily unavailable")))]

\* lines 232-233, given the result of validate_request_data: a failure leaves
\* through the outer except clauses, a success goes on to lines 236-243
AfterNormalize(loc, validated) ==
    IF validated.ok
    THEN [loc EXCEPT !.pc = "awaiting",
                     !.validated_request = validated.val,
                     !.events = <<"verify_llm_connection", "validate_request_data",
                                  "create_mcq_chain", "chain.invoke">>]
    ELSE [loc EXCEPT !.pc = "done",
                     !.events = <<"verify_llm_connection", "validate_request_data">>,
                     !.response = HttpResponse(ExceptOuter(
                                     Raise(MCQValidationError(validated.err))))]

\* A variant that goes on to the chain whatever validate_request_data said
StartStepMutantIgnoreNormalize(loc) ==
    [loc EXCEPT !.pc = "awaiting",
                !.validated_request = loc.request,
                !.events = <<"verify_llm_connection", "validate_request_data",
                             "create_mcq_chain", "chain.invoke">>]

\* lines 223-243, up to the await
StartStep(loc) == AfterNormalize(loc, validate_request_data(loc.request))

\* lines 251-285, given the processed value
AfterProcess(loc, raw, processed) ==
    [loc EXCEPT !.pc = "done",
                !.raw_result = raw,
                !.mcq_data = processed,
                !.events = loc.events \o (IF processed.ok
                                          THEN <<"validate_mcq_json", "MCQResponse">>
                                          ELSE <<"validate_mcq_json">>),
                !.response = Respond(processed)]

\* The awaited call returned raw after elapsed seconds (lines 240-243, 251-304)
ReturnStep(loc, raw, elapsed) ==
    AfterProcess(loc, raw, ProcessGenerated(loc.request, raw, elapsed))

\* asyncio.wait_for raised TimeoutError (lines 244-249)
TimeoutStep(loc) ==
    [loc EXCEPT !.pc = "done",
                !.events = loc.events \o <<"TimeoutError">>,
                !.response = HttpResponse(ExceptOuter(ExceptTimeout(
                                Raise(OtherException("TimeoutError")))))]

\* chain.invoke raised (lines 296-304)
RaiseStep(loc) ==
    [loc EXCEPT !.pc = "done",
                !.events = loc.events \o <<"Exception">>,
                !.response = HttpResponse(ExceptOuter(ExceptTimeout(
                                Raise(OtherException("Exception")))))]

Locals ==
    [ pc |-> pc, request |-> request, validated_request |-> validated_request,
      raw_result |-> raw_result, mcq_data |-> mcq_data, response |-> response,
      events |-> events ]

Assign(loc) ==
    /\ pc' = loc.pc
    /\ request' = loc.request
    /\ validated_request' = loc.validated_request
    /\ raw_result' = loc.raw_result
    /\ mcq_data' = loc.mcq_data
    /\ response' = loc.response
    /\ events' = loc.events

\* llm_client is the lru_cache of get_llm_client: "empty" until a call has
\* succeeded, "cached" afterwards
Init ==
    /\ pc = "received"
    /\ request \in Requests
    /\ validated_request = None
    /\ raw_result = None
    /\ mcq_data = None
    /\ repaired_again = None
    /\ response = None
    /\ events = <<>>
    /\ llm_client \in {"empty", "cached"}
    /\ inflight = <<>>
    /\ batch = None
    /\ llm_calls = None

\* get_llm_client raises in verify_llm_connection; nothing is cached
LlmUnavailable ==
    /\ pc = "received"
    /\ llm_client = "empty"
    /\ Assign(UnavailableStep(Locals))
    /\ UNCHANGED <<repaired_again, llm_client, inflight,
                   batch, llm_calls>>

\* verify_llm_connection succeeds and the handler runs up to the await
GenerateStart ==
    /\ pc = "received"
    /\ Assign(StartStep(Locals))
    /\ llm_client' = "cached"
    /\ UNCHANGED <<repaired_again, inflight,
                   batch, llm_calls>>

\* The chain returns within the timeout; the handler runs to its end.
ChainReturns ==
    /\ pc = "awaiting"
    /\ \E raw \in BackendPayloads, elapsed \in 0..MaxElapsed :
          Assign(ReturnStep(Locals, raw, elapsed))
    /\ UNCHANGED <<repaired_again, llm_client, inflight,
                   batch, llm_calls>>

ChainTimesOut ==
    /\ pc = "awaiting"
    /\ Assign(TimeoutStep(Locals))
    /\ UNCHANGED <<repaired_again, llm_client, inflight,
                   batch, llm_calls>>

ChainRaises ==
    /\ pc = "awaiting"
    /\ Assign(RaiseStep(Locals))
    /\ UNCHANGED <<repaired_again, llm_client, inflight,
                   batch, llm_calls>>

Next == LlmUnavailable \/ GenerateStart \/ ChainReturns \/ ChainTimesOut \/ ChainRaises

Spec == Init /\ [][Next]_vars

----------------------------------------------------------------------------
(* Properties of the orchestrator *)

Responded == pc = "done" /\ raw_result # None

\* Every raw question is a well-formed question the schema accepts
RawQuestionsValid ==
    /\ RawTopLevelOk
    /\ Len(RawQuestions) > 0
    /\ \A i \in 1..Len(RawQuestions) :
          /\ WellFormed(RawQuestions[i])
          /\ ValidMCQQuestion(SetDefault(RawQuestions[i], "question_id", i))

NullOrOmitted(key) == ~Has(raw_result, key) \/ IsNull(raw_result[key])

\* C9: for a backend payload with valid questions whose roadmap and
\* reference_videos are null or omitted, the orchestrator answers 200 with
\* roadmap and reference_videos null.
C9_NullOptionalSucceeds ==
    (Responded /\ RawQuestionsValid /\ NullOrOmitted("roadmap")
               /\ NullOrOmitted("reference_videos")) =>
        /\ response["status"] = 200
        /\ IsNull(response["body"]["roadmap"])
        /\ IsNull(response["body"]["reference_videos"])

Done == pc = "done"

EventSet == {events[i] : i \in 1..Len(events)}

LastEvent == IF events = <<>> THEN "" ELSE events[Len(events)]

TimedOut == Done /\ LastEvent = "TimeoutError"

\* C15: when the backend call does not complete within the timeout, the
\* response is 504 and nothing else, and validate_mcq_json is not called for
\* the request.
C15_TimeoutOnly ==
    TimedOut =>
        /\ response["status"] = 504
        /\ "validate_mcq_json" \notin EventSet
        /\ "MCQResponse" \notin EventSet
        /\ mcq_data = None
        /\ raw_result = None

\* A request whose backend call timed out has been answered.
C15_Witness == TimedOut /\ response["status"] = 504 /\ validated_request # None

\* The status each way of leaving the handler is to give (0: either 200 or 500)
ExpectedStatus ==
    CASE events = <<"verify_llm_connection">> -> 503
      [] events = <<"verify_llm_connection", "validate_request_data">> -> 400
      [] LastEvent = "TimeoutError" -> 504
      [] LastEvent = "Exception" -> 500
      [] LastEvent = "validate_mcq_json" -> 500
      [] LastEvent = "MCQResponse" -> 0
      [] OTHER -> -1

\* C17: an unavailable client gives 503, a failure of validate_request_data
\* 400, a timeout 504, an exception of the backend or a failure of
\* validate_mcq_json 500, and a request that reached the response model 200 or
\* (when building it fails) 500; a failure of validate_mcq_json never gives 400.
C17_StatusMapping ==
    Done =>
        /\ response["status"] \in {200, 400, 500, 503, 504}
        /\ ExpectedStatus # -1
        /\ ExpectedStatus # 0 => response["status"] = ExpectedStatus
        /\ ExpectedStatus = 0 => response["status"] \in {200, 500}
        /\ response["status"] = 400 => ~validate_request_data(request).ok
        /\ (mcq_data # None /\ ~mcq_data.ok) => response["status"] = 500

\* validate_mcq_json failed and the request was answered 500.
C17_Witness ==
    /\ Done /\ LastEvent = "validate_mcq_json"
    /\ mcq_data # None /\ ~mcq_data.ok
    /\ response["status"] = 500

\* The place of a call or exception in the handler's sequence
Rank(event) ==
    CASE event = "verify_llm_connection" -> 0
      [] event = "validate_request_data" -> 1
      [] event = "create_mcq_chain" -> 2
      [] event = "chain.invoke" -> 3
      [] event \in {"TimeoutError", "Exception", "validate_mcq_json"} -> 4
      [] event = "MCQResponse" -> 5

\* C18: the calls of one invocation occur in the order validate_request_data,
\* chain.invoke, validate_mcq_json, MCQResponse, each at most once; the chain
\* is not invoked when validate_request_data fails, and validate_mcq_json runs
\* only on a value the chain returned.
C18_StepOrder ==
    /\ \A i, j \in 1..Len(events) : i < j => Rank(events[i]) < Rank(events[j])
    /\ "chain.invoke" \in EventSet =>
          ("validate_request_data" \in EventSet /\ validate_request_data(request).ok)
    /\ "validate_mcq_json" \in EventSet => ("chain.invoke" \in EventSet /\ raw_result # None)
    /\ "MCQResponse" \in EventSet =>
          ("validate_mcq_json" \in EventSet /\ mcq_data # None /\ mcq_data.ok)
    /\ raw_result # None => "chain.invoke" \in EventSet

\* A request that went through all four steps and was answered 200.
C18_Witness ==
    /\ Done /\ response["status"] = 200
    /\ events = <<"verify_llm_connection", "validate_request_data", "create_mcq_chain",
                  "chain.invoke", "validate_mcq_json", "MCQResponse">>

\* A request whose normalisation failed: the chain was not invoked.
C18_WitnessNormalizeFails ==
    /\ Done /\ ~validate_request_data(request).ok
    /\ "chain.invoke" \notin EventSet

Succeeded200 == Responded /\ response["status"] = 200

ResponseMetadata == response["body"]["metadata"]

\* The metadata validate_mcq_json returned for the backend payload
RepairedMetadata == validate_mcq_json(raw_result).val["metadata"]

\* generation_time_seconds in the response to raw after elapsed seconds, for
\* a handler that is awaiting the backend; -1 when the response is an error
GenerationTimeAfter(step) ==
    IF step.response["status"] = 200
    THEN step.response["body"]["metadata"]["generation_time_seconds"]
    ELSE -1

\* Whatever returns and however long it took, a 200 response carries the
\* seconds the handler measured
ElapsedIsMeasured ==
    pc = "awaiting" =>
        \A raw \in BackendPayloads, elapsed \in 0..MaxElapsed :
            GenerationTimeAfter(ReturnStep(Locals, raw, elapsed)) \in {-1, elapsed}

\* What both readings of C27 share: username, topic and
\* generation_time_seconds of a 200 response are the request's username and
\* topic and the measured seconds, whatever the payload's metadata says, and
\* the response metadata has the repaired keys and the attached ones.
AttachedMetadata ==
    /\ ElapsedIsMeasured
    /\ Succeeded200 =>
          /\ ResponseMetadata["username"] = request["username"]
          /\ ResponseMetadata["topic"] = request["topic"]
          /\ ResponseMetadata["generation_time_seconds"] \in 0..MaxElapsed
          /\ DOMAIN ResponseMetadata =
                (DOMAIN RepairedMetadata) \cup
                    {"username", "topic", "generation_time_seconds", "request_timestamp"}

\* C27 as stated: every repaired metadata key other than username, topic and
\* generation_time_seconds is in the response with its repaired value.
C27_OrchestratorMetadata ==
    /\ AttachedMetadata
    /\ Succeeded200 =>
          \A k \in (DOMAIN RepairedMetadata) \ {"username", "topic", "generation_time_seconds"} :
              ResponseMetadata[k] = RepairedMetadata[k]

\* C27 as amended: the orchestrator attaches request_timestamp as well, and
\* every repaired metadata key other than these four keeps its repaired value.
C27_OrchestratorMetadataFourKeys ==
    /\ AttachedMetadata
    /\ Succeeded200 =>
          /\ ResponseMetadata["request_timestamp"] = Now
          /\ \A k \in (DOMAIN RepairedMetadata) \
                        {"username", "topic", "generation_time_seconds", "request_timestamp"} :
                ResponseMetadata[k] = RepairedMetadata[k]

\* A 200 response to a payload whose metadata has its own username, topic and
\* generation_time_seconds: the response carries the request's.
C27_Witness ==
    /\ Succeeded200
    /\ Has(raw_result, "metadata") /\ Has(raw_result["metadata"], "username")
    /\ raw_result["metadata"]["username"] # request["username"]
    /\ raw_result["metadata"]["generation_time_seconds"] = 99
    /\ ResponseMetadata["username"] = request["username"]
    /\ ResponseMetadata["generation_time_seconds"] = 1
    /\ ResponseMetadata["model"] = "m"

ResponseQuestions == response["body"]["questions"].list

ResponseVideos == response["body"]["reference_videos"]

\* validate_mcq_json returned, for the backend payload, data the response
\* schema rejects (the fallback of validation.py lines 55-58)
RepairFellBack ==
    /\ Responded
    /\ validate_mcq_json(raw_result).ok
    /\ ~ValidMCQResponse(validate_mcq_json(raw_result).val)

\* C28: in a 200 response every question has question_text and explanation
\* within the length bounds, a difficulty among basic, intermediate, advanced
\* and mixed, and exactly 4 options of which exactly one is correct, and every
\* reference video has an http or https url; a request whose repair fell back
\* to data the schema rejects is answered 500.
C28_SchemaConformance ==
    /\ Succeeded200 =>
          /\ \A i \in 1..Len(ResponseQuestions) :
                /\ StrLen(ResponseQuestions[i]["question_text"])
                      \in MinQuestionTextLen..MaxQuestionTextLen
                /\ StrLen(ResponseQuestions[i]["explanation"])
                      \in MinExplanationLen..MaxExplanationLen
                /\ ResponseQuestions[i]["difficulty"] \in DifficultyLevel
                /\ Len(ResponseQuestions[i]["options"].list) = 4
                /\ Cardinality(CorrectIdx(ResponseQuestions[i]["options"].list)) = 1
          /\ IsList(ResponseVideos) =>
                \A k \in 1..Len(ResponseVideos.list) :
                    HasAcceptedScheme(ResponseVideos.list[k]["url"])
    /\ RepairFellBack => response["status"] = 500

\* Repair returned a question whose text is shorter than the schema allows;
\* the request was answered 500.
C28_Witness ==
    /\ RepairFellBack
    /\ "MCQResponse" \in EventSet
    /\ \E i \in 1..Len(RawQuestions) :
          StrLen(RawQuestions[i]["question_text"]) < MinQuestionTextLen
    /\ response["status"] = 500

----------------------------------------------------------------------------
(* Several invocations of generate_mcq in flight *)

MaxInflight == 2

ConcurrentRequests ==
    { [ username |-> <<"a", "7">>, topic |-> "t", difficulty |-> "mixed",
        question_count |-> Num(5), include_roadmap |-> TRUE, include_videos |-> TRUE ],
      [ username |-> <<"Z", "_">>, topic |-> "t", difficulty |-> "mixed",
        question_count |-> Null, include_roadmap |-> FALSE, include_videos |-> FALSE ],
      [ username |-> <<"_", "-">>, topic |-> "t", difficulty |-> "mixed",
        question_count |-> Num(5), include_roadmap |-> TRUE, include_videos |-> TRUE ] }

\* A payload the orchestrator answers with 200, one it answers with 500 after
\* a successful repair, and one whose repair fails
ConcurrentPayloads ==
    { [ username |-> "u", topic |-> "t", questions |-> TwoQuestions,
        roadmap |-> List(<<[ step_number |-> 1, title |-> "T", description |-> "D",
                             estimated_duration |-> "1h",
                             prerequisites |-> List(<<"p">>) ]>>),
        reference_videos |-> List(<<FullVideo("https")>>) ],
      BasePayload(TwoQuestions),
      BasePayload(List(<<>>)) }

\* A variant in which every invocation works on the names of the first one
LocalsOfMutantShared(all, i) == all[1]

\* The names of invocation i: each call of generate_mcq has its own frame, and
\* validate_request_data / validate_mcq_json work on the dicts passed to them
LocalsOf(all, i) == all[i]

\* request[i] is the request invocation i received; inflight[i] its frame.
\* The lru_cache of get_llm_client is the one object the invocations share.
InitConcurrent ==
    /\ pc = "serving"
    /\ request \in [1..MaxInflight -> ConcurrentRequests]
    /\ inflight = [i \in 1..MaxInflight |-> InitialLocals(request[i])]
    /\ validated_request = None
    /\ raw_result = None
    /\ mcq_data = None
    /\ repaired_again = None
    /\ response = None
    /\ events = <<>>
    /\ llm_client \in {"empty", "cached"}
    /\ batch = None
    /\ llm_calls = None

ConcurrentUnavailable(i) ==
    /\ LocalsOf(inflight, i).pc = "received"
    /\ llm_client = "empty"
    /\ inflight' = [inflight EXCEPT ![i] = UnavailableStep(LocalsOf(inflight, i))]
    /\ UNCHANGED <<pc, request, validated_request, raw_result, mcq_data, repaired_again,
                   response, events, llm_client,
                   batch, llm_calls>>

ConcurrentStart(i) ==
    /\ LocalsOf(inflight, i).pc = "received"
    /\ inflight' = [inflight EXCEPT ![i] = StartStep(LocalsOf(inflight, i))]
    /\ llm_client' = "cached"
    /\ UNCHANGED <<pc, request, validated_request, raw_result, mcq_data, repaired_again,
                   response, events,
                   batch, llm_calls>>

ConcurrentReturns(i) ==
    /\ LocalsOf(inflight, i).pc = "awaiting"
    /\ \E raw \in ConcurrentPayloads, elapsed \in 0..MaxElapsed :
          inflight' = [inflight EXCEPT ![i] = ReturnStep(LocalsOf(inflight, i), raw, elapsed)]
    /\ UNCHANGED <<pc, request, validated_request, raw_result, mcq_data, repaired_again,
                   response, events, llm_client,
                   batch, llm_calls>>

ConcurrentTimesOut(i) ==
    /\ LocalsOf(inflight, i).pc = "awaiting"
    /\ inflight' = [inflight EXCEPT ![i] = TimeoutStep(LocalsOf(inflight, i))]
    /\ UNCHANGED <<pc, request, validated_request, raw_result, mcq_data, repaired_again,
                   response, events, llm_client,
                   batch, llm_calls>>

ConcurrentRaises(i) ==
    /\ LocalsOf(inflight, i).pc = "awaiting"
    /\ inflight' = [inflight EXCEPT ![i] = RaiseStep(LocalsOf(inflight, i))]
    /\ UNCHANGED <<pc, request, validated_request, raw_result, mcq_data, repaired_again,
                   response, events, llm_client,
                   batch, llm_calls>>

NextConcurrent ==
    \E i \in 1..MaxInflight :
        \/ ConcurrentUnavailable(i)
        \/ ConcurrentStart(i)
        \/ ConcurrentReturns(i)
        \/ ConcurrentTimesOut(i)
        \/ ConcurrentRaises(i)

SpecConcurrent == InitConcurrent /\ [][NextConcurrent]_vars

\* The seconds the handler measured, when its repaired dict carries them
ElapsedOf(loc) ==
    IF loc.mcq_data # None /\ loc.mcq_data.ok
    THEN loc.mcq_data.val["metadata"]["generation_time_seconds"]
    ELSE 0

\* The frame an invocation ends with when it runs alone on request req and
\* the client and the backend behave as they did for loc
SoloFrom(loc, started) ==
    IF loc.events = <<"verify_llm_connection">> THEN UnavailableStep(started)
    ELSE IF StartStep(started).pc = "done" THEN StartStep(started)
    ELSE IF loc.events[Len(loc.events)] = "TimeoutError" THEN TimeoutStep(StartStep(started))
    ELSE IF loc.events[Len(loc.events)] = "Exception" THEN RaiseStep(StartStep(started))
    ELSE ReturnStep(StartStep(started), loc.raw_result, ElapsedOf(loc))

SoloRun(req, loc) == SoloFrom(loc, InitialLocals(req))

\* C19: whatever the interleaving, an invocation that has finished holds the
\* response (and the other names) it would hold had it run alone on its own
\* request with the same behaviour of the client and the backend, and an
\* invocation that has not started is untouched.
C19_NoInterference ==
    \A i \in 1..MaxInflight :
        /\ inflight[i].request = request[i]
        /\ inflight[i].pc = "received" => inflight[i] = InitialLocals(request[i])
        /\ inflight[i].pc = "done" => inflight[i] = SoloRun(request[i], inflight[i])

\* The first invocation was answered 200 while the second, for a different
\* request, is still awaiting the backend.
C19_Witness ==
    /\ pc = "serving"
    /\ request[1] # request[2]
    /\ inflight[1].pc = "done" /\ inflight[1].response["status"] = 200
    /\ inflight[2].pc = "awaiting"

\* Both invocations have finished, with different responses.
C19_WitnessBothDone ==
    /\ pc = "serving"
    /\ \A i \in 1..MaxInflight : inflight[i].pc = "done"
    /\ inflight[1].response["status"] = 200
    /\ inflight[2].response["status"] = 500

----------------------------------------------------------------------------
(* The batch endpoint: generate_mcq_batch *)

MaxBatch == 6

\* routes.py line 390
BatchLimit == 5

\* A request generate_mcq serves and one validate_request_data rejects
BatchRequests ==
    { [ username |-> <<"a", "7">>, topic |-> "t", difficulty |-> "mixed",
        question_count |-> Num(5), include_roadmap |-> TRUE, include_videos |-> TRUE ],
      [ username |-> <<"_", "-">>, topic |-> "t", difficulty |-> "mixed",
        question_count |-> Num(5), include_roadmap |-> TRUE, include_videos |-> TRUE ] }

\* A payload generate_mcq answers with 200 and one whose repair fails
BatchPayloads ==
    { [ username |-> "u", topic |-> "t", questions |-> TwoQuestions,
        roadmap |-> List(<<>>), reference_videos |-> List(<<>>) ],
      BasePayload(List(<<>>)) }

\* lines 400-412: the entry appended for request i (0-based), given what the
\* call of generate_mcq returned or raised
BatchResult(i, outcome) ==
    IF outcome["status"] = 200
    THEN [request_index |-> i, status |-> "success", data |-> outcome["body"]]
    ELSE [ request_index |-> i, status |-> "error", error |-> outcome["detail"],
           status_code |-> outcome["status"] ]

SuccessCount(results) == Cardinality({k \in 1..Len(results) : results[k]["status"] = "success"})

\* lines 421-432: the dict the endpoint returns (batch_id and
\* total_processing_time left out)
BatchResponse(requests, results) ==
    [ status |-> 200,
      body |-> [ total_requests |-> Len(requests),
                 successful_requests |-> SuccessCount(results),
                 failed_requests |-> Len(requests) - SuccessCount(results),
                 results |-> results,
                 timestamp |-> Now ] ]

\* The names of one invocation of generate_mcq_batch; calls is the sequence
\* of request indexes generate_mcq has been called for, current the frame of
\* the call of generate_mcq in progress
InitialBatch(requests) ==
    [ pc |-> "received", requests |-> requests, i |-> 0, results |-> <<>>, calls |-> <<>>,
      current |-> None, response |-> None ]

\* A variant whose loop ends at the first request that fails
WithResultMutantStopOnError(b, result) ==
    IF b.i + 1 >= Len(b.requests) \/ result["status"] = "error"
    THEN [b EXCEPT !.pc = "done", !.i = b.i + 1, !.current = None,
                   !.results = Append(b.results, result),
                   !.response = BatchResponse(b.requests, Append(b.results, result))]
    ELSE [b EXCEPT !.pc = "loop", !.i = b.i + 1, !.current = None,
                   !.results = Append(b.results, result)]

\* lines 402-419 and, after the last request, 421-432: the entry is appended
\* and the loop goes on to the next request or the endpoint returns
WithResult(b, result) ==
    IF b.i + 1 >= Len(b.requests)
    THEN [b EXCEPT !.pc = "done", !.i = b.i + 1, !.current = None,
                   !.results = Append(b.results, result),
                   !.response = BatchResponse(b.requests, Append(b.results, result))]
    ELSE [b EXCEPT !.pc = "loop", !.i = b.i + 1, !.current = None,
                   !.results = Append(b.results, result)]

\* lines 390-397: the size check, then the loop (which an empty batch skips)
BatchBeginStep(b) ==
    IF Len(b.requests) > BatchLimit
    THEN [b EXCEPT !.pc = "done",
                   !.response = HttpResponse(Raise(HTTPException(400,
                                   "Maximum 5 requests allowed in batch")))]
    ELSE IF Len(b.requests) = 0
    THEN [b EXCEPT !.pc = "done", !.response = BatchResponse(b.requests, <<>>)]
    ELSE [b EXCEPT !.pc = "loop"]

\* line 402, given the frame of generate_mcq at its await or at its end
AfterCall(b, frame) ==
    IF frame.pc = "done"
    THEN WithResult([b EXCEPT !.calls = Append(b.calls, b.i)],
                    BatchResult(b.i, frame.response))
    ELSE [b EXCEPT !.pc = "awaiting", !.calls = Append(b.calls, b.i), !.current = frame]

BatchCallStep(b) == AfterCall(b, StartStep(InitialLocals(b.requests[b.i + 1])))

\* The call of generate_mcq in progress ends with frame
BatchEndStep(b, frame) == WithResult(b, BatchResult(b.i, frame.response))

InitBatch ==
    /\ pc = "batch"
    /\ request = None
    /\ validated_request = None
    /\ raw_result = None
    /\ mcq_data = None
    /\ repaired_again = None
    /\ response = None
    /\ events = <<>>
    /\ llm_client \in {"empty", "cached"}
    /\ inflight = <<>>
    /\ batch \in {InitialBatch(requests) : requests \in SeqsUpTo(BatchRequests, MaxBatch)}
    /\ llm_calls = None

\* verify_llm_connection raises: the endpoint is not entered
BatchUnavailable ==
    /\ batch.pc = "received"
    /\ llm_client = "empty"
    /\ batch' = [batch EXCEPT !.pc = "done",
                              !.response = HttpResponse(Raise(HTTPException(503,
                                              "AI service temporarily unavailable")))]
    /\ UNCHANGED <<pc, request, validated_request, raw_result, mcq_data, repaired_again,
                   response, events, llm_client, inflight, llm_calls>>

BatchBegin ==
    /\ batch.pc = "received"
    /\ batch' = BatchBeginStep(batch)
    /\ llm_client' = "cached"
    /\ UNCHANGED <<pc, request, validated_request, raw_result, mcq_data, repaired_again,
                   response, events, inflight, llm_calls>>

\* generate_mcq is called for the next request and runs up to its await, or
\* to its end when validate_request_data fails
BatchCall ==
    /\ batch.pc = "loop"
    /\ batch' = BatchCallStep(batch)
    /\ UNCHANGED <<pc, request, validated_request, raw_result, mcq_data, repaired_again,
                   response, events, llm_client, inflight, llm_calls>>

BatchChainReturns ==
    /\ batch.pc = "awaiting"
    /\ \E raw \in BatchPayloads, elapsed \in 0..MaxElapsed :
          batch' = BatchEndStep(batch, ReturnStep(batch.current, raw, elapsed))
    /\ UNCHANGED <<pc, request, validated_request, raw_result, mcq_data, repaired_again,
                   response, events, llm_client, inflight, llm_calls>>

BatchChainTimesOut ==
    /\ batch.pc = "awaiting"
    /\ batch' = BatchEndStep(batch, TimeoutStep(batch.current))
    /\ UNCHANGED <<pc, request, validated_request, raw_result, mcq_data, repaired_again,
                   response, events, llm_client, inflight, llm_calls>>

BatchChainRaises ==
    /\ batch.pc = "awaiting"
    /\ batch' = BatchEndStep(batch, RaiseStep(batch.current))
    /\ UNCHANGED <<pc, request, validated_request, raw_result, mcq_data, repaired_again,
                   response, events, llm_client, inflight, llm_calls>>

NextBatch ==
    \/ BatchUnavailable
    \/ BatchBegin
    \/ BatchCall
    \/ BatchChainReturns
    \/ BatchChainTimesOut
    \/ BatchChainRaises

SpecBatch == InitBatch /\ [][NextBatch]_vars

BatchDone == pc = "batch" /\ batch.pc = "done"

BatchServed == BatchDone /\ batch.response["status"] = 200

\* The request indexes 0 .. n-1 in order
IndexesUpTo(n) == [k \in 1..n |-> k - 1]

\* C29: a batch of more than 5 requests is answered 400 with generate_mcq not
\* called for any of them.  For a batch of at most 5, generate_mcq is called
\* for the requests one after another in order (at every moment for a prefix
\* of them, with one result per finished call); the answer holds one result
\* per request, request_index being its 0-based position, error for a request
\* validate_request_data rejects and success only with that request's
\* username, whatever the results before it were; and successful_requests +
\* failed_requests = total_requests, successful_requests counting the
\* successes.
C29_Batch ==
    pc = "batch" =>
        /\ batch.calls = IndexesUpTo(Len(batch.calls))
        /\ Len(batch.calls) <= Len(batch.requests)
        /\ Len(batch.results) = (IF batch.pc = "awaiting" THEN Len(batch.calls) - 1
                                 ELSE Len(batch.calls))
        /\ Len(batch.requests) > BatchLimit =>
              /\ batch.calls = <<>>
              /\ BatchDone => batch.response["status"] \in {400, 503}
        /\ (BatchDone /\ Len(batch.requests) <= BatchLimit) =>
              batch.response["status"] \in {200, 503}
        /\ BatchServed =>
              /\ batch.calls = IndexesUpTo(Len(batch.requests))
              /\ Len(batch.response["body"]["results"]) = Len(batch.requests)
              /\ \A k \in 1..Len(batch.requests) :
                    /\ batch.response["body"]["results"][k]["request_index"] = k - 1
                    /\ ~validate_request_data(batch.requests[k]).ok =>
                          /\ batch.response["body"]["results"][k]["status"] = "error"
                          /\ batch.response["body"]["results"][k]["status_code"] = 400
                    /\ batch.response["body"]["results"][k]["status"] = "success" =>
                          batch.response["body"]["results"][k]["data"]["metadata"]["username"]
                              = batch.requests[k]["username"]
              /\ batch.response["body"]["total_requests"] = Len(batch.requests)
              /\ batch.response["body"]["successful_requests"]
                    = SuccessCount(batch.response["body"]["results"])
              /\ batch.response["body"]["successful_requests"]
                    + batch.response["body"]["failed_requests"]
                    = batch.response["body"]["total_requests"]

\* A batch of 5 was served although its first request timed out, its second
\* was rejected and its third failed in repair: the fourth succeeded.
C29_Witness ==
    /\ BatchServed
    /\ Len(batch.requests) = 5
    /\ batch.results[1]["status"] = "error" /\ batch.results[1]["status_code"] = 504
    /\ batch.results[2]["status"] = "error" /\ batch.results[2]["status_code"] = 400
    /\ batch.results[3]["status"] = "error" /\ batch.results[3]["status_code"] = 500
    /\ batch.results[4]["status"] = "success"
    /\ batch.response["body"]["successful_requests"] >= 1
    /\ batch.response["body"]["failed_requests"] >= 3

\* A batch of 6 was answered 400 by the size check.
C29_WitnessRejected ==
    /\ BatchDone
    /\ Len(batch.requests) = 6
    /\ batch.response["status"] = 400
    /\ batch.calls = <<>>

----------------------------------------------------------------------------
(* The client cache: get_llm_client under lru_cache(maxsize=1) *)

MaxCalls == 4

\* The functions that call get_llm_client (main.py line 53, routes.py lines
\* 40, 77 and 146, chain.py line 89).  All of them run on the event loop's
\* thread and get_llm_client does not await, so calls do not overlap.
Callers ==
    {"lifespan", "verify_llm_connection", "health_check", "readiness_check", "create_mcq_chain"}

\* One entry of the log of calls: constructed tells whether the body of
\* get_llm_client ran, client is the object returned (clients are numbered in
\* the order of their construction), 0 when LLMConnectionError was raised
LogEntry(op, caller, constructed, client) ==
    [op |-> op, caller |-> caller, constructed |-> constructed, client |-> client]

\* cached: the client the lru_cache holds, 0 when it holds none; clients: the
\* number of clients constructed so far
EmptyCache == [cached |-> 0, clients |-> 0, log |-> <<>>]

\* A variant without the cache: the body runs at every call
get_llm_clientMutantNoCache(calls, caller, succeeds) ==
    IF succeeds
    THEN [ cached |-> calls.clients + 1, clients |-> calls.clients + 1,
           log |-> Append(calls.log, LogEntry("get", caller, TRUE, calls.clients + 1)) ]
    ELSE [calls EXCEPT !.log = Append(calls.log, LogEntry("get", caller, TRUE, 0))]

\* llm.py lines 15-53.  A hit returns the cached client without running the
\* body; on a miss the body runs and its result is cached when it returns,
\* while an exception (lines 50-53) leaves the cache as it was.
get_llm_client(calls, caller, succeeds) ==
    IF calls.cached # 0
    THEN [calls EXCEPT !.log = Append(calls.log, LogEntry("get", caller, FALSE, calls.cached))]
    ELSE IF succeeds
    THEN [ cached |-> calls.clients + 1, clients |-> calls.clients + 1,
           log |-> Append(calls.log, LogEntry("get", caller, TRUE, calls.clients + 1)) ]
    ELSE [calls EXCEPT !.log = Append(calls.log, LogEntry("get", caller, TRUE, 0))]

\* llm.py lines 151-159
clear_llm_cache(calls) ==
    [calls EXCEPT !.cached = 0,
                  !.log = Append(calls.log, LogEntry("clear", "clear_llm_cache", FALSE, 0))]

CacheState(calls) == IF calls.cached = 0 THEN "empty" ELSE "cached"

InitCache ==
    /\ pc = "cache"
    /\ request = None
    /\ validated_request = None
    /\ raw_result = None
    /\ mcq_data = None
    /\ repaired_again = None
    /\ response = None
    /\ events = <<>>
    /\ llm_client = "empty"
    /\ inflight = <<>>
    /\ batch = None
    /\ llm_calls = EmptyCache

\* A call of get_llm_client whose construction, if it comes to one, succeeds
GetLlmClientReturns ==
    /\ Len(llm_calls.log) < MaxCalls
    /\ \E caller \in Callers : llm_calls' = get_llm_client(llm_calls, caller, TRUE)
    /\ llm_client' = CacheState(llm_calls')
    /\ UNCHANGED <<pc, request, validated_request, raw_result, mcq_data, repaired_again,
                   response, events, inflight, batch>>

\* A call of get_llm_client whose construction, if it comes to one, fails
GetLlmClientFails ==
    /\ Len(llm_calls.log) < MaxCalls
    /\ \E caller \in Callers : llm_calls' = get_llm_client(llm_calls, caller, FALSE)
    /\ llm_client' = CacheState(llm_calls')
    /\ UNCHANGED <<pc, request, validated_request, raw_result, mcq_data, repaired_again,
                   response, events, inflight, batch>>

ClearLlmCache ==
    /\ Len(llm_calls.log) < MaxCalls
    /\ llm_calls' = clear_llm_cache(llm_calls)
    /\ llm_client' = CacheState(llm_calls')
    /\ UNCHANGED <<pc, request, validated_request, raw_result, mcq_data, repaired_again,
                   response, events, inflight, batch>>

NextCache == GetLlmClientReturns \/ GetLlmClientFails \/ ClearLlmCache

SpecCache == InitCache /\ [][NextCache]_vars

CallLog == llm_calls.log

\* No clear_llm_cache between entries j and k of the log
NoClearBetween(j, k) == \A m \in (j + 1)..(k - 1) : CallLog[m]["op"] # "clear"

\* Entry j is a call of get_llm_client that returned a client
ReturnedClient(j) == CallLog[j]["op"] = "get" /\ CallLog[j]["client"] # 0

\* Entry k is the first one, or follows a clear_llm_cache or a call whose
\* construction failed
AfterFailureOrClear(k) ==
    \/ k = 1
    \/ CallLog[k - 1]["op"] = "clear"
    \/ (CallLog[k - 1]["op"] = "get" /\ CallLog[k - 1]["client"] = 0)

\* C30: a call of get_llm_client that comes after a call that returned a
\* client, with no clear_llm_cache in between, returns the same client and
\* does not construct one, whoever the callers are; a call that follows a
\* failed call (or a clear_llm_cache, or is the first one) runs the
\* construction; and a client is constructed only by such a call.
C30_ClientCached ==
    pc = "cache" =>
        \A k \in 1..Len(CallLog) :
            CallLog[k]["op"] = "get" =>
                /\ \A j \in 1..(k - 1) :
                      (ReturnedClient(j) /\ NoClearBetween(j, k)) =>
                          /\ CallLog[k]["client"] = CallLog[j]["client"]
                          /\ ~CallLog[k]["constructed"]
                /\ AfterFailureOrClear(k) => CallLog[k]["constructed"]
                /\ CallLog[k]["constructed"] =>
                      \A j \in 1..(k - 1) : ~(ReturnedClient(j) /\ NoClearBetween(j, k))

\* The client constructed for the lifespan was returned to two later callers;
\* nothing else was constructed.
C30_Witness ==
    /\ pc = "cache"
    /\ Len(CallLog) >= 3
    /\ CallLog[1] = LogEntry("get", "lifespan", TRUE, 1)
    /\ CallLog[2] = LogEntry("get", "verify_llm_connection", FALSE, 1)
    /\ CallLog[3] = LogEntry("get", "create_mcq_chain", FALSE, 1)
    /\ llm_calls.clients = 1

\* A failed construction was followed by a call that constructed the client.
C30_WitnessRetry ==
    /\ pc = "cache"
    /\ Len(CallLog) >= 2
    /\ CallLog[1]["constructed"] /\ CallLog[1]["client"] = 0
    /\ CallLog[2]["constructed"] /\ CallLog[2]["client"] = 1

\* After clear_llm_cache a second client was constructed.
C30_WitnessCleared ==
    /\ pc = "cache"
    /\ Len(CallLog) >= 3
    /\ CallLog[2]["op"] = "clear"
    /\ CallLog[3]["constructed"] /\ CallLog[3]["client"] = 2

====
